---- MODULE Spec2Model ----
(***************************************************************************)
(* Model of the four-digit seven-segment display code of the Arduino       *)
(* sketch collection: the segment encoder LC4LEDDisplayMemWrite, the       *)
(* multiplexed display drivers LC4LEDDisplay (HC595 shift-register and     *)
(* direct-GPIO bindings), the timer handlers and the debounced button      *)
(* reader of the HC595 clock sketch.                                       *)
(*                                                                         *)
(* Characters are their ASCII codes, bytes are 0..255, a C string is a     *)
(* sequence of character codes that holds its NUL terminator; C index i is *)
(* TLA+ index i + 1.                                                       *)
(***************************************************************************)
EXTENDS Integers, Sequences, FiniteSets, TLC

(***************************************************************************)
(* Bounds of the model.                                                    *)
(***************************************************************************)
\* longest string (without its NUL) the encoder harness enumerates in full
MaxLen == 9
\* number of advances of the millisecond clock in the clock sketch
MaxAdvances == 9
\* number of one-second timer interrupts in the clock sketch
MaxSlowTicks == 8

(***************************************************************************)
(* Bit operations on bytes.                                                *)
(***************************************************************************)
Pow2(k) == IF k = 0 THEN 1 ELSE IF k = 1 THEN 2 ELSE IF k = 2 THEN 4
           ELSE IF k = 3 THEN 8 ELSE IF k = 4 THEN 16 ELSE IF k = 5 THEN 32
           ELSE IF k = 6 THEN 64 ELSE IF k = 7 THEN 128 ELSE 2^k

\* bit k (0 = least significant) of the non-negative integer x
Bit(x, k) == (x \div Pow2(k)) % 2

\* the C operator & on two bytes
BitAnd(a, b) ==
    Bit(a,0)*Bit(b,0) + 2*Bit(a,1)*Bit(b,1) + 4*Bit(a,2)*Bit(b,2)
  + 8*Bit(a,3)*Bit(b,3) + 16*Bit(a,4)*Bit(b,4) + 32*Bit(a,5)*Bit(b,5)
  + 64*Bit(a,6)*Bit(b,6) + 128*Bit(a,7)*Bit(b,7)

\* the C operator >> on a non-negative int
ShiftRight(x, n) == x \div Pow2(n)

(***************************************************************************)
(* 7-segment, active low character definitions (a at bit 7, h = DP at      *)
(* bit 0).                                                                 *)
(***************************************************************************)
ZERO == 3
ONE == 159
TWO == 37
THREE == 13
FOUR == 153
FIVE == 73
SIX == 65
SEVEN == 31
EIGHT == 1
NINE == 9
MINUS == 253
BLANK == 255
DEGREE == 57
ACHAR == 17
BCHAR == 193
CCHAR == 99
DCHAR == 133
ECHAR == 97
FCHAR == 113
HCHARSMALL == 209
HCHARBIG == 145
JCHAR == 7
LCHAR == 227
\* a slip in the table: n gets the bitmask of L
NCHARSlip == LCHAR
NCHAR == 213
OCHAR == 197
PCHAR == 49
RCHAR == 245
TCHAR == 225
UCHARSMALL == 199
UCHARBIG == 131
YCHAR == 137
QUESTION == 53
DP == 254

(***************************************************************************)
(* ASCII codes of the characters the sketches use.                         *)
(***************************************************************************)
NUL == 0
ChSpace == 32
ChMinus == 45
ChDot == 46
Ch0 == 48
ChA == 65
ChC == 67
ChE == 69
ChF == 70
ChH == 72
ChJ == 74
ChL == 76
ChP == 80
ChU == 85
ChY == 89
Chb == 98
Chd == 100
Chg == 103
Chh == 104
Chn == 110
Cho == 111
Chr == 114
Cht == 116
Chu == 117
\* two characters outside the displayed set: '?' and 'x'
ChQuestion == Ch0 + 15
Chx == Cht + 4

\* the character of the decimal digit d: d + '0'
Digit(d) == d + Ch0

\* value of the switch (digits[i]) in LC4LEDDisplayMemWrite for a non-'.'
\* character: the byte its case stores, or -1 for the default branch
GlyphOf(c) ==
    CASE c = Digit(0) -> ZERO   [] c = Digit(1) -> ONE
      [] c = Digit(2) -> TWO    [] c = Digit(3) -> THREE
      [] c = Digit(4) -> FOUR   [] c = Digit(5) -> FIVE
      [] c = Digit(6) -> SIX    [] c = Digit(7) -> SEVEN
      [] c = Digit(8) -> EIGHT  [] c = Digit(9) -> NINE
      [] c = ChMinus -> MINUS   [] c = ChSpace -> BLANK
      [] c = Chg -> DEGREE      [] c = ChA -> ACHAR
      [] c = Chb -> BCHAR       [] c = ChC -> CCHAR
      [] c = Chd -> DCHAR       [] c = ChE -> ECHAR
      [] c = ChF -> FCHAR       [] c = Chh -> HCHARSMALL
      [] c = ChH -> HCHARBIG    [] c = ChJ -> JCHAR
      [] c = ChL -> LCHAR       [] c = Chn -> NCHAR
      [] c = Cho -> OCHAR       [] c = ChP -> PCHAR
      [] c = Chr -> RCHAR       [] c = Cht -> TCHAR
      [] c = Chu -> UCHARSMALL  [] c = ChU -> UCHARBIG
      [] c = ChY -> YCHAR
      [] OTHER -> -1

(***************************************************************************)
(* LC4LEDDisplayMemWrite, statement by statement.                          *)
(***************************************************************************)
\* while(digits[len++] != 0x0) ; len--;
RECURSIVE StrLenFrom(_, _)
StrLenFrom(digits, len) ==
    IF digits[len + 1] = NUL THEN len ELSE StrLenFrom(digits, len + 1)

StrLen(digits) == StrLenFrom(digits, 0)

\* for(i = 0; i < len; i++) if(digits[i] == '.') dotsPos[dots++] = i;
\* st = [dots, dotsPos, beyond]: dotsPos has 4 elements, and a store with
\* dots >= 4 lands outside the array (beyond)
RECURSIVE ScanDots(_, _, _, _)
ScanDots(digits, len, i, st) ==
    IF i >= len THEN st
    ELSE IF digits[i + 1] = ChDot
    THEN ScanDots(digits, len, i + 1,
           IF st.dots < 4
           THEN [st EXCEPT !.dotsPos[st.dots + 1] = i, !.dots = st.dots + 1]
           ELSE [st EXCEPT !.dots = st.dots + 1, !.beyond = TRUE])
    ELSE ScanDots(digits, len, i + 1, st)

\* for(i = 1; i < dots; i++) if(dotsPos[i] == (dotsPos[i - 1] + 1)) error
\* (reached only with len - dots = 4, hence dots <= 4)
ConsecutiveDots(dotsPos, dots) ==
    \E i \in 1..(dots - 1) : dotsPos[i + 1] = dotsPos[i] + 1

\* the wrong mask: MINUS clears bit 1, not the decimal point
DotStoreWrongMask(b) == BitAnd(b, MINUS)

\* case '.': displayBuf[bufIndex - 1] = displayBuf[bufIndex - 1] & DP
DotStore(b) == BitAnd(b, DP)

\* the encoding loop; st = [buf, bufIndex, error, below, under]: below is
\* the byte of RAM in front of displayBuf, which displayBuf[bufIndex - 1]
\* names when bufIndex is 0 (under records that this happened)
RECURSIVE EncodeLoop(_, _, _, _)
EncodeLoop(digits, len, i, st) ==
    IF i >= len THEN st
    ELSE IF st.bufIndex > 3 /\ digits[i + 1] # ChDot
    THEN [st EXCEPT !.error = TRUE]
    ELSE IF digits[i + 1] = ChDot
    THEN EncodeLoop(digits, len, i + 1,
           IF st.bufIndex >= 1
           THEN [st EXCEPT !.buf[st.bufIndex] = DotStore(st.buf[st.bufIndex])]
           ELSE [st EXCEPT !.below = DotStore(st.below), !.under = TRUE])
    ELSE IF GlyphOf(digits[i + 1]) # -1
    THEN EncodeLoop(digits, len, i + 1,
           [st EXCEPT !.buf[st.bufIndex + 1] = GlyphOf(digits[i + 1]),
                      !.bufIndex = st.bufIndex + 1])
    ELSE EncodeLoop(digits, len, i + 1, [st EXCEPT !.error = TRUE])

\* an off-by-one in the upper limit
LengthErrorOffByOne(len) == len > 7 \/ len < 4

\* if(len > 8 || len < 4) goto error
LengthError(len) == len > 8 \/ len < 4

\* accepts fewer than 4 characters that are not dots
DotCountErrorLoose(len, dots) == len - dots > 4

\* if(len - dots != 4) goto error: dots can be only appended to other chars
DotCountError(len, dots) == len - dots # 4

\* if(dots > 0) if(dotsPos[0] == 0) goto error: no dot at the start
LeadingDot(dotsPos, dots) == dots > 0 /\ dotsPos[1] = 0

\* error: displayBuf[0..3] = DP, QUESTION & DP, QUESTION, BLANK
ErrorPattern == <<DP, BitAnd(QUESTION, DP), QUESTION, BLANK>>

\* dotsPos[dots++] = i with dots >= 4 stores outside the array: undefined
\* behaviour. What the store hits in the frame of the function depends on
\* the build: nothing the function uses again ("none"), or the slot that
\* holds the pointer parameter displayBuf ("displayBuf"), after which every
\* store through displayBuf goes elsewhere and the caller's buffer is not
\* written.
StackVictims == {"none", "displayBuf"}

\* The whole function: the set of its possible results. A result holds the
\* caller's buffer, the byte in front of it, the number of buffer positions
\* stored by a glyph case, and whether the call stored outside dotsPos /
\* outside displayBuf.
LC4LEDDisplayMemWrite(digits, buf, before) ==
    LET len  == StrLen(digits)
        sc0  == [dots |-> 0, dotsPos |-> <<0, 0, 0, 0>>, beyond |-> FALSE]
        scan == IF LengthError(len) THEN sc0 ELSE ScanDots(digits, len, 0, sc0)
        st0  == [buf |-> buf, bufIndex |-> 0, error |-> FALSE,
                 below |-> before, under |-> FALSE]
        st   == IF LengthError(len) THEN [st0 EXCEPT !.error = TRUE]
                ELSE IF DotCountError(len, scan.dots)
                THEN [st0 EXCEPT !.error = TRUE]
                ELSE IF LeadingDot(scan.dotsPos, scan.dots)
                THEN [st0 EXCEPT !.error = TRUE]
                ELSE IF ConsecutiveDots(scan.dotsPos, scan.dots)
                THEN [st0 EXCEPT !.error = TRUE]
                ELSE EncodeLoop(digits, len, 0, st0)
        normal  == [buf |-> IF st.error THEN ErrorPattern ELSE st.buf,
                    below |-> st.below, stored |-> st.bufIndex,
                    dotsOverflow |-> scan.beyond, bufUnderflow |-> st.under]
        smashed == [buf |-> buf, below |-> before, stored |-> 0,
                    dotsOverflow |-> TRUE, bufUnderflow |-> FALSE]
    IN  IF scan.beyond
        THEN {IF victim = "none" THEN normal ELSE smashed :
                  victim \in StackVictims}
        ELSE {normal}

\* the out-of-bounds stores of a call, as a set of array names
Stray(r) == (IF r.dotsOverflow THEN {"dotsPos"} ELSE {})
            \cup (IF r.bufUnderflow THEN {"displayBuf"} ELSE {})

\* the call goes to error: before the encoding loop
MemWriteRejects(digits) ==
    LET len  == StrLen(digits)
        scan == ScanDots(digits, len, 0,
                         [dots |-> 0, dotsPos |-> <<0, 0, 0, 0>>,
                          beyond |-> FALSE])
    IN  \/ LengthError(len)
        \/ DotCountError(len, scan.dots)
        \/ LeadingDot(scan.dotsPos, scan.dots)
        \/ ConsecutiveDots(scan.dotsPos, scan.dots)

\* the encoding loop over the first k characters
MemWriteLoop(digits, buf, k) ==
    EncodeLoop(digits, k, 0, [buf |-> buf, bufIndex |-> 0, error |-> FALSE,
                              below |-> 0, under |-> FALSE])

\* the rounds of the encoding loop of a call and, after an error, the four
\* stores of the error pattern. A string that passes the checks has four
\* characters that are not dots, so that the loop does not leave early
MemWriteRounds(digits) ==
    IF MemWriteRejects(digits) THEN 4
    ELSE StrLen(digits)
           + (IF MemWriteLoop(digits, <<0, 0, 0, 0>>, StrLen(digits)).error
              THEN 4 ELSE 0)

\* displayBuf after the first k of these, for a string with four dots at
\* most: a run of the loop from the start over a buffer it has partly
\* written stores the same bytes again
MemWriteAfter(digits, buf, k) ==
    LET rounds == IF MemWriteRejects(digits) THEN 0 ELSE StrLen(digits)
        looped == IF rounds = 0 THEN buf
                  ELSE IF k < rounds THEN MemWriteLoop(digits, buf, k).buf
                  ELSE MemWriteLoop(digits, buf, rounds).buf
    IN  [j \in 1..4 |-> IF j <= k - rounds THEN ErrorPattern[j]
                        ELSE looped[j]]

(***************************************************************************)
(* Pin levels, the HC595 shift registers and the display drivers.          *)
(***************************************************************************)
HIGH == 1
LOW == 0

\* digitalWrite(pin, val): any non-zero val drives the pin HIGH
DigitalWriteLevel(val) == IF val = 0 THEN LOW ELSE HIGH

\* shiftOut(DATA, CLOCK, MSBFIRST, val): 8 clock pulses, each shifts the
\* register chain by one and takes bit 7 - i of val in
RECURSIVE ShiftOutFrom(_, _, _)
ShiftOutFrom(reg, val, i) ==
    IF i > 7 THEN reg
    ELSE ShiftOutFrom((2 * reg + Bit(val, 7 - i)) % 65536, val, i + 1)

ShiftOut(reg, val) == ShiftOutFrom(reg, val, 0)

\* a slip: the mask shifted instead of the single low bit
EnableNibbleWalkingMask(d) == BitAnd(ShiftRight(15, d), 15)

\* (0xF7 >> digit) & 0x0F: set low the digit enable bit
EnableNibble(d) == BitAnd(ShiftRight(247, d), 15)

\* LC4LEDDisplay(LCdisplayBuf, digit) of the HC595 sketches: the content of
\* the register chain when LATCH goes HIGH
LC4LEDDisplay(buf, d, reg) ==
    ShiftOut(ShiftOut(reg, EnableNibble(d)), buf[d + 1])

\* the outputs of the chain: bits 3-0 of the MSB enable the digits (active
\* low), the LSB drives the segments
EnableLines(out) == (out \div 256) % 16
SegmentLines(out) == out % 256

\* the positions a content of the outputs enables
Selected(out) == {d \in 0..3 : Bit(EnableLines(out), 3 - d) = 0}

\* a slip: the counter is masked to one bit
NextDigitOneBit(d) == BitAnd((d + 1) % 256, 1)

\* digit += 1; digit &= 0x3;
NextDigit(d) == BitAnd((d + 1) % 256, 3)

\* the last (up to 4) elements of a history
Last4(h) == IF Len(h) <= 4 THEN h ELSE SubSeq(h, Len(h) - 3, Len(h))

(***************************************************************************)
(* convTemp. A temperature is given in tenths of a degree.                 *)
(***************************************************************************)
\* round(temperature): to the nearest integer, halves away from zero
Round(tenths) ==
    IF tenths >= 0 THEN (tenths + 5) \div 10 ELSE -((5 - tenths) \div 10)

\* a char that holds the int value v
ToChar(v) == v % 256

\* convTemp(temperature): the string after the call, given the string before
ConvTemp(str, tenths) ==
    LET t     == Round(tenths)
        a     == IF t < 0 THEN -t ELSE t
        tens  == a \div 10
        rest  == IF a >= 10 THEN a - tens * 10 ELSE a
    IN  IF t < 100
        THEN [str EXCEPT
                ![1] = IF t < 0 THEN ChMinus ELSE ChSpace,
                ![2] = IF a >= 10 THEN ToChar(tens + Ch0) ELSE ChSpace,
                ![3] = IF rest >= 1 THEN ToChar(rest + Ch0) ELSE Digit(0),
                ![4] = Chg]
        ELSE str

\* readings of the sensor, in tenths of a degree: -7.5, 23.4 and 100.0
Temps == {-75, 234, 1000}

(***************************************************************************)
(* The constants of the clock sketch.                                      *)
(***************************************************************************)
TREADDELAY == 5
SETPIN == 8
UPPIN == 7
SMIDLE == 0
SMTHOUR == 1
SMUHOUR == 2
SMTMINUTE == 3
SMUMINUTE == 4
BNONE == 0
BSETUP == 1
BUP == 2
DSTEMP == TRUE
debounceDelay == 50

(***************************************************************************)
(* State.                                                                  *)
(***************************************************************************)
VARIABLES
    sketch,       \* the program on the board: "encoder" (a caller of the
                  \* encoder alone), "clock", "thermoInt" or "thermoGpio"
    pc,           \* position of the foreground code
    digits,       \* the string handed to LC4LEDDisplayMemWrite
    displayBuf,   \* byte displayBuf[4]
    below,        \* the byte of RAM in front of displayBuf
    written,      \* buffer positions stored by the last encoder call
    firstBuf,     \* displayBuf after the first encoding of digits
    stray,        \* arrays the encoder calls so far stored outside of
    digit,        \* byte digit: the position the next refresh shows
    readDelay,    \* readDelay: countdown to the next reading / switch
    tempString,   \* the string convTemp writes and returns
    shiftReg,     \* the 16 bits in the two chained HC595 shift registers
    hcOut,        \* the 16 bits latched on the HC595 outputs, -1 before
                  \* the first latch
    shown,        \* history: the positions the last (up to 4) refreshes
                  \* enabled
    digitPinLevel,    \* levels of the pins digitPin[0..3]
    segmentPinLevel,  \* levels of the pins segmentPin[0..7]
    digitLocal,   \* LC4LEDDisplay (GPIO): loop variable digit
    segment,      \* LC4LEDDisplay (GPIO): loop variable segment
    currentChar,  \* LC4LEDDisplay (GPIO): currentChar
    clock,        \* byte clock[5]: tens and units of hours, of minutes, seconds
    tmpClock,     \* byte tmpClock[4]: the time under adjustment
    setupMode,    \* byte setupMode
    timeString,   \* char timeString[7]
    displaySwitch,    \* boolean displaySwitch
    tick,         \* boolean tick
    dsfound,      \* boolean dsfound
    startConversion,  \* boolean startConversion
    buttonSetupState, lastButtonSetupState, lastSetupDebounceTime,
    buttonUpState, lastButtonUpState, lastUpDebounceTime,
    button,       \* loop(): byte button
    now,          \* what millis() returns
    pinLevel,     \* the levels on the input pins SETPIN and UPPIN
    nAdvances,    \* history: the number of steps of the time so far
    nSlowTicks,   \* history: the number of timer 1 interrupts so far
    readRun,      \* history, per pin, of the run of equal readings the last
                  \* reading belongs to: its level, the time of its first
                  \* reading, the debounced state that reading found, the
                  \* pressed events reported in it, and whether the last
                  \* reading is of this time and this level of the pin
    pressEvents,  \* history, per pin: pressed events since the pin last rose
    limits,       \* the extent of the run: how often the time steps and
                  \* timer 1 fires at most, whether timer 2 runs, how many
                  \* pressed events are taken as input (0: the pins are
                  \* read) and the second of the day the run starts at
    copyI,        \* loop(), clockSetup(): int i of the copy loops
    ticksBefore,  \* history: nSlowTicks when the handling of the last
                  \* pressed event began
    entryTicks,   \* history: nSlowTicks when the handling of the last SETUP
                  \* pressed event that left Idle began
    ticksInCopy,  \* history: the interrupts of timer 1 that fell into the
                  \* copy loops of loop() and clockSetup()
    nSetups,      \* history: the SETUP pressed events taken as input
    nUps,         \* history: the UP pressed events taken as input
    \* the clock with the LCD, which has clock[3] and tmpClock[3] in binary
    notestate,    \* boolean notestate: the beep on the hour is on
    beepflag,     \* boolean beepflag: timer 1 has ordered a beep
    beepPin,      \* the level of the pin BEEP
    \* the datalogger
    tAlarms,      \* byte tAlarms
    sAlarms,      \* byte sAlarms
    buzzDelayCnt, \* byte buzzDelayCnt
    buzzerPin,    \* the level of the pin BUZZERPIN
    buzzed,       \* history: the pin has been HIGH in the present pass
    passes,       \* history: the loop passes so far
    seenFirst,    \* history: the first test of the present pass has found
                  \* an alarm
    alarmRun,     \* history: the passes in a row, the last one with both
                  \* tests done included, in which the tests have found an
                  \* alarm, the first of them after a pass in which they
                  \* found none; -1 where an alarm went or came otherwise
    temps,        \* float temps[SENSOR_COUNT], in thousandths of a degree
    heater,       \* byte heater
    heaterPort,   \* the byte last sent to the port of the heaters, -1
                  \* before the first
    ints,         \* the interrupt enable flag of the processor
    alarmReg,     \* the copy of *alarmvar that Alarm() works on, -1
                  \* outside Alarm()
    alarmBit,     \* bitpos of the foreground's call of Alarm() under way
                  \* or last made
    alarmAction,  \* action of that call
    rtcLast,      \* history: the value int_sqw last gave the bit SALRTC
    reading,      \* history: the readings of the clock chip so far
    rtcDate,      \* char rtcDate[11]: the reading it was printed from
    rtcTime,      \* char rtcTime[9]: the reading it was printed from
    rowDate,      \* the date in the log row of the pass, -1 before
    rowTime       \* the time in the log row of the pass, -1 before

encVars == <<digits, displayBuf, below, written, firstBuf, stray>>

\* what a call of the encoder may change
memVars == <<digits, displayBuf, below, written, stray>>

hcVars == <<digit, shiftReg, hcOut, shown>>

gpioVars == <<digitPinLevel, segmentPinLevel, digitLocal, segment, currentChar>>

clockVars == <<clock, tmpClock, setupMode, timeString, displaySwitch, tick,
               dsfound, startConversion>>

buttonVars == <<buttonSetupState, lastButtonSetupState, lastSetupDebounceTime,
                buttonUpState, lastButtonUpState, lastUpDebounceTime,
                readRun, pressEvents>>

envVars == <<now, pinLevel, nAdvances, nSlowTicks, limits>>

\* the state only the clock sketch uses
\* the copy loops and the history of the pressed events
handleVars == <<copyI, ticksBefore, entryTicks, ticksInCopy, nSetups, nUps>>

lcdVars == <<notestate, beepflag, beepPin>>

\* the heaters, the system alarms and the time stamp of the datalogger
boxVars == <<temps, heater, heaterPort, ints, alarmReg, alarmBit,
             alarmAction, rtcLast, reading, rtcDate, rtcTime, rowDate,
             rowTime>>

loggerVars == <<tAlarms, sAlarms, buzzDelayCnt, buzzerPin, buzzed, passes,
                seenFirst, alarmRun, boxVars>>

clockOnly == <<clockVars, buttonVars, button, envVars, handleVars>>

vars == <<sketch, pc, encVars, readDelay, tempString, hcVars, gpioVars,
          clockOnly, lcdVars, loggerVars>>

(***************************************************************************)
(* Input strings of the encoder.                                           *)
(***************************************************************************)
\* every string up to MaxLen characters over a supported character, the
\* decimal point and an unsupported character
SmallAlphabet == {Digit(1), ChDot, Chx}

StringsUpTo(n) == UNION {[1..k -> SmallAlphabet] : k \in 0..n}

\* the displayed character set "0123456789- gAbCdEFhHJLnoPrtuUY"
SupportedChars ==
    {Digit(d) : d \in 0..9} \cup
    {ChMinus, ChSpace, Chg, ChA, Chb, ChC, Chd, ChE, ChF, Chh, ChH, ChJ, ChL,
     Chn, Cho, ChP, Chr, Cht, Chu, ChU, ChY}

\* "1234" with character c on position k and a dot after the positions in D
Template(c, k, D) ==
    LET Piece(j) == <<IF j = k THEN c ELSE Digit(j)>>
                    \o (IF j \in D THEN <<ChDot>> ELSE <<>>)
    IN  Piece(1) \o Piece(2) \o Piece(3) \o Piece(4)

GlyphStrings ==
    {Template(c, k, D) : c \in SupportedChars \cup {ChQuestion},
                         k \in 1..4, D \in SUBSET (1..4)}

\* " 12.", " 12. ", "00.00", "00.00.", "t---", " 23g", " . . . ."
NamedStrings ==
    { <<ChSpace, Digit(1), Digit(2), ChDot>>,
      <<ChSpace, Digit(1), Digit(2), ChDot, ChSpace>>,
      <<Digit(0), Digit(0), ChDot, Digit(0), Digit(0)>>,
      <<Digit(0), Digit(0), ChDot, Digit(0), Digit(0), ChDot>>,
      <<Cht, ChMinus, ChMinus, ChMinus>>,
      <<ChSpace, Digit(2), Digit(3), Chg>>,
      <<ChSpace, ChDot, ChSpace, ChDot, ChSpace, ChDot, ChSpace, ChDot>> }

CString(str) == Append(str, NUL)

Inputs == {CString(str) : str \in StringsUpTo(MaxLen) \cup GlyphStrings
                                  \cup NamedStrings}

\* strings encoded before the string under test: an invalid and a valid one
PriorInputs == { CString(<<Chx, Chx>>),
                 CString(<<ChMinus, ChSpace, ChDot, Digit(7), ChY>>) }

(***************************************************************************)
(* A caller of the encoder: it encodes an optional earlier string, then    *)
(* the string digits, then digits once more.                               *)
(***************************************************************************)
\* the call LC4LEDDisplayMemWrite(str, displayBuf) and its effect on RAM
CallMemWrite(str) ==
    \E r \in LC4LEDDisplayMemWrite(str, displayBuf, below) :
        /\ displayBuf' = r.buf
        /\ below' = r.below
        /\ written' = r.stored
        /\ stray' = stray \cup Stray(r)

EncPrior ==
    /\ sketch = "encoder" /\ pc = "start"
    /\ \E str \in PriorInputs : CallMemWrite(str)
    /\ pc' = "primed"
    /\ UNCHANGED <<sketch, lcdVars, loggerVars,
                   digits, firstBuf, readDelay, tempString, hcVars,
                   gpioVars, clockOnly>>

EncFirst ==
    /\ sketch = "encoder" /\ pc \in {"start", "primed"}
    /\ CallMemWrite(digits)
    /\ firstBuf' = displayBuf'
    /\ pc' = "once"
    /\ UNCHANGED <<sketch, lcdVars, loggerVars,
                   digits, readDelay, tempString, hcVars, gpioVars,
                   clockOnly>>

EncSecond ==
    /\ sketch = "encoder" /\ pc = "once"
    /\ CallMemWrite(digits)
    /\ pc' = "twice"
    /\ UNCHANGED <<sketch, lcdVars, loggerVars,
                   digits, firstBuf, readDelay, tempString, hcVars,
                   gpioVars, clockOnly>>

\* RAM after reset: globals without an initializer are zero
BootBuf ==
    /\ displayBuf = <<0, 0, 0, 0>>
    /\ below = 255
    /\ written = 0
    /\ firstBuf = <<0, 0, 0, 0>>
    /\ stray = {}

\* char *tempString = "  00"
BootTempString ==
    tempString = CString(<<ChSpace, ChSpace, Digit(0), Digit(0)>>)

\* byte digit = 0; the shift registers have not been written
BootHC595 ==
    /\ digit = 0
    /\ shiftReg = 0
    /\ hcOut = -1
    /\ shown = <<>>

\* setup() of the GPIO thermometer: every digit and segment pin HIGH
BootGpio ==
    /\ digitPinLevel = <<HIGH, HIGH, HIGH, HIGH>>
    /\ segmentPinLevel = <<HIGH, HIGH, HIGH, HIGH, HIGH, HIGH, HIGH, HIGH>>
    /\ digitLocal = 0
    /\ segment = 0
    /\ currentChar = 0

\* a run of a sketch without buttons and timer 1
Still == [advances |-> 0, slowTicks |-> 0, refresh |-> FALSE, events |-> 0,
          start |-> 0]

\* the runs of the clock sketch that read the pins. One follows the buttons
\* over a long time with both timers held off, one follows the display over
\* many seconds, one has the time for one press to be accepted and the
\* display; the runs of timer 1 against the handling of the pressed events
\* are the ones of SetupRuns
Runs ==
    {[advances |-> MaxAdvances, slowTicks |-> 0, refresh |-> FALSE,
      events |-> 0, start |-> 0],
     [advances |-> 0, slowTicks |-> MaxSlowTicks, refresh |-> TRUE,
      events |-> 0, start |-> 0],
     [advances |-> debounceDelay \div 25 + 1, slowTicks |-> 0,
      refresh |-> TRUE, events |-> 0, start |-> 0]}

\* the initializers of the clock sketch's globals
BootClock ==
    /\ clock = <<0, 0, 0, 0, 0>>
    /\ tmpClock = <<0, 0, 0, 0>>
    /\ setupMode = SMIDLE
    /\ timeString = <<Digit(0), Digit(0), ChDot, Digit(0), Digit(0), NUL, NUL>>
    /\ displaySwitch = DSTEMP
    /\ tick = FALSE
    /\ startConversion = TRUE
    /\ nSlowTicks = 0

\* buttonSetupState and buttonUpState have no initializer: zero; nothing
\* holds a button down at power-on
BootButtons ==
    /\ buttonSetupState = 0 /\ lastButtonSetupState = LOW
    /\ buttonUpState = 0 /\ lastButtonUpState = LOW
    /\ lastSetupDebounceTime = 0 /\ lastUpDebounceTime = 0
    /\ button = BNONE
    /\ now = 0
    /\ pinLevel = [p \in {SETPIN, UPPIN} |-> LOW]
    /\ nAdvances = 0
    /\ readRun = [p \in {SETPIN, UPPIN} |->
                      [level |-> LOW, since |-> 0, from |-> LOW, events |-> 0,
                       fresh |-> FALSE]]
    /\ pressEvents = [p \in {SETPIN, UPPIN} |-> 0]
    /\ copyI = 0 /\ ticksBefore = 0 /\ entryTicks = 0 /\ ticksInCopy = 0
    /\ nSetups = 0 /\ nUps = 0

\* the LCD clock: boolean beepflag = false, notestate = false; setup()
\* writes BEEP low
BootLcd ==
    /\ notestate = FALSE /\ beepflag = FALSE /\ beepPin = LOW

\* the datalogger: byte heater = 0; the temperatures have not been read,
\* nothing has been sent to the heaters, interrupts are on, rtcDate and
\* rtcTime are empty
BootBoxes ==
    /\ temps = [i \in 0..6 |-> 0]
    /\ heater = 0 /\ heaterPort = -1
    /\ ints = TRUE /\ alarmReg = -1 /\ alarmBit = 0 /\ alarmAction = 0
    /\ rtcLast = 0 /\ reading = 0 /\ rtcDate = 0 /\ rtcTime = 0
    /\ rowDate = -1 /\ rowTime = -1

\* the datalogger: byte tAlarms = 0, sAlarms = 0, buzzDelayCnt = 0; setup()
\* writes BUZZERPIN low
BootLogger ==
    /\ tAlarms = 0 /\ sAlarms = 0 /\ buzzDelayCnt = 0 /\ buzzerPin = LOW
    /\ buzzed = FALSE /\ passes = 0 /\ seenFirst = FALSE /\ alarmRun = 0
    /\ BootBoxes

InitEnc ==
    /\ sketch = "encoder" /\ pc = "start"
    /\ digits \in Inputs
    /\ BootBuf
    /\ readDelay = 0
    /\ BootTempString /\ BootHC595 /\ BootGpio
    /\ BootClock /\ BootButtons /\ dsfound = FALSE
    /\ BootLcd /\ BootLogger
    /\ limits = Still

NextEnc == EncPrior \/ EncFirst \/ EncSecond

SpecEnc == InitEnc /\ [][NextEnc]_vars

(***************************************************************************)
(* The thermometer sketches. A sketch passes a string to the encoder and   *)
(* `digits' remembers the string of the last call.                         *)
(***************************************************************************)
SketchMemWrite(str) ==
    /\ CallMemWrite(str)
    /\ digits' = str

\* Digital_thermometer_HC595_int: #define TREADDELAY 400
TREADDELAY_THERMO == 400

\* readDelay--; if(readDelay == 0) readDelay = <reload>;
CountDown(delay, reload) == IF delay - 1 = 0 THEN reload ELSE delay - 1

\* Digital_thermometer_HC595_int, ISR(TIMER2_COMPA_vect): every
\* TREADDELAY-th tick reads the sensor and rewrites the display memory, every
\* tick shows one position and advances to the next
ThermoTick ==
    /\ sketch = "thermoInt"
    /\ IF readDelay = TREADDELAY_THERMO
       THEN \E temperature \in Temps :
                /\ tempString' = ConvTemp(tempString, temperature)
                /\ SketchMemWrite(tempString')
       ELSE UNCHANGED <<tempString, memVars>>
    /\ readDelay' = CountDown(readDelay, TREADDELAY_THERMO)
    /\ shiftReg' = LC4LEDDisplay(displayBuf', digit, shiftReg)
    /\ hcOut' = shiftReg'
    /\ shown' = Last4(Append(shown, Selected(hcOut')))
    /\ digit' = NextDigit(digit)
    /\ UNCHANGED <<sketch, lcdVars, loggerVars,
                   pc, firstBuf, gpioVars, clockOnly>>

InitThermoInt ==
    /\ sketch = "thermoInt" /\ pc = "loop"
    /\ digits = <<NUL>>
    /\ BootBuf
    /\ readDelay = TREADDELAY_THERMO
    /\ BootTempString /\ BootHC595 /\ BootGpio
    /\ BootClock /\ BootButtons /\ dsfound = FALSE
    /\ BootLcd /\ BootLogger
    /\ limits = Still

\* Digital thermometer v2 (direct GPIO): int readDelay = 1000
READDELAY_GPIO == 1000

\* readings of the sensor of the GPIO thermometer: 23.4 and -7.5 degrees
TempsGpio == {234, -75}

\* loop() up to the call of LC4LEDDisplay(displayBuf)
GpioLoop ==
    /\ sketch = "thermoGpio" /\ pc = "loop"
    /\ IF readDelay = READDELAY_GPIO
       THEN \E temperature \in TempsGpio :
                /\ tempString' = ConvTemp(tempString, temperature)
                /\ SketchMemWrite(tempString')
       ELSE UNCHANGED <<tempString, memVars>>
    /\ readDelay' = CountDown(readDelay, READDELAY_GPIO)
    /\ digitLocal' = 0
    /\ pc' = "for"
    /\ UNCHANGED <<sketch, lcdVars, loggerVars,
                   firstBuf, hcVars, digitPinLevel, segmentPinLevel,
                   segment, currentChar, clockOnly>>

\* for(int digit = 0; digit < 4; ...): currentChar = LCdisplayBuf[digit]
GpioDigitBegin ==
    /\ sketch = "thermoGpio" /\ pc = "for"
    /\ digitLocal < 4
    /\ currentChar' = displayBuf[digitLocal + 1]
    /\ segment' = 7
    /\ pc' = "segments"
    /\ UNCHANGED <<sketch, lcdVars, loggerVars,
                   encVars, readDelay, tempString, hcVars,
                   digitPinLevel, segmentPinLevel, digitLocal, clockOnly>>

\* digitalWrite(segmentPin[segment], currentChar & 0x01); currentChar >>= 1
GpioSegmentWrite ==
    /\ sketch = "thermoGpio" /\ pc = "segments"
    /\ segment >= 0
    /\ segmentPinLevel' =
           [segmentPinLevel EXCEPT
               ![segment + 1] = DigitalWriteLevel(BitAnd(currentChar, 1))]
    /\ currentChar' = ShiftRight(currentChar, 1)
    /\ segment' = segment - 1
    /\ UNCHANGED <<sketch, lcdVars, loggerVars,
                   pc, encVars, readDelay, tempString, hcVars,
                   digitPinLevel, digitLocal, clockOnly>>

\* digitalWrite(digitPin[digit], LOW); delay(1) follows
GpioDigitLow ==
    /\ sketch = "thermoGpio" /\ pc = "segments"
    /\ segment < 0
    /\ digitPinLevel' = [digitPinLevel EXCEPT ![digitLocal + 1] = LOW]
    /\ pc' = "lit"
    /\ UNCHANGED <<sketch, lcdVars, loggerVars,
                   encVars, readDelay, tempString, hcVars,
                   segmentPinLevel, digitLocal, segment, currentChar,
                   clockOnly>>

\* digitalWrite(digitPin[digit], HIGH); digit++
GpioDigitHigh ==
    /\ sketch = "thermoGpio" /\ pc = "lit"
    /\ digitPinLevel' = [digitPinLevel EXCEPT ![digitLocal + 1] = HIGH]
    /\ digitLocal' = digitLocal + 1
    /\ pc' = "for"
    /\ UNCHANGED <<sketch, lcdVars, loggerVars,
                   encVars, readDelay, tempString, hcVars,
                   segmentPinLevel, segment, currentChar, clockOnly>>

\* the for loop ends, LC4LEDDisplay and loop() return
GpioReturn ==
    /\ sketch = "thermoGpio" /\ pc = "for"
    /\ digitLocal >= 4
    /\ pc' = "loop"
    /\ UNCHANGED <<sketch, lcdVars, loggerVars,
                   encVars, readDelay, tempString, hcVars, gpioVars,
                   clockOnly>>

InitThermoGpio ==
    /\ sketch = "thermoGpio" /\ pc = "loop"
    /\ digits = <<NUL>>
    /\ BootBuf
    /\ readDelay = READDELAY_GPIO
    /\ BootTempString /\ BootHC595 /\ BootGpio
    /\ BootClock /\ BootButtons /\ dsfound = FALSE
    /\ BootLcd /\ BootLogger
    /\ limits = Still

NextThermo ==
    \/ ThermoTick
    \/ GpioLoop \/ GpioDigitBegin \/ GpioSegmentWrite
    \/ GpioDigitLow \/ GpioDigitHigh \/ GpioReturn

SpecThermo == (InitThermoInt \/ InitThermoGpio) /\ [][NextThermo]_vars

(***************************************************************************)
(* The clock sketch (HC595, DS18B20): the buttons.                         *)
(***************************************************************************)
\* millis() - last: unsigned long arithmetic. The times of a run stay far
\* below 2^31, where the difference of the two does not wrap
Elapsed(t, last) == t - last

\* a slip: the reading is not compared with the debounced state
DebounceNoStateTest(test, state, lastState, lastTime, t) ==
    LET time   == IF test # lastState THEN t ELSE lastTime
        stable == Elapsed(t, time) > debounceDelay
    IN  [state |-> IF stable THEN test ELSE state, last |-> test,
         time |-> time, pressed |-> stable /\ test = HIGH]

\* a slip: a change of the reading does not restart the debounce timer
DebounceNoReset(test, state, lastState, lastTime, t) ==
    LET accept == Elapsed(t, lastTime) > debounceDelay /\ test # state
    IN  [state |-> IF accept THEN test ELSE state, last |-> test,
         time |-> lastTime, pressed |-> accept /\ test = HIGH]

\* a slip: the event is reported as the button is released
DebounceOnRelease(test, state, lastState, lastTime, t) ==
    LET time   == IF test # lastState THEN t ELSE lastTime
        accept == Elapsed(t, time) > debounceDelay /\ test # state
    IN  [state |-> IF accept THEN test ELSE state, last |-> test,
         time |-> time, pressed |-> accept /\ test = LOW]

\* readClockButtons, the part for one button: the reading `test' of its pin
\* at time t against the debounced state, the previous reading and the
\* time of the last change of the reading
Debounce(test, state, lastState, lastTime, t) ==
    LET time   == IF test # lastState THEN t ELSE lastTime
        accept == Elapsed(t, time) > debounceDelay /\ test # state
    IN  [state |-> IF accept THEN test ELSE state, last |-> test,
         time |-> time, pressed |-> accept /\ test = HIGH]

\* the history of the readings of a pin, after one more reading at t that
\* found the debounced state as it was and was or was not reported as a
\* pressed event: the run of equal readings it belongs to
Reading(run, test, t, state, pressed) ==
    LET begins == test # run.level
    IN  [level  |-> test,
         since  |-> IF begins THEN t ELSE run.since,
         from   |-> IF begins THEN state ELSE run.from,
         events |-> (IF begins THEN 0 ELSE run.events)
                        + (IF pressed THEN 1 ELSE 0),
         fresh  |-> TRUE]

\* the history of the readings of a pin when the time or the pin moves: the
\* last reading is no longer the present one
Stale(run) == [run EXCEPT !.fresh = FALSE]

\* the debounced state of a button
ButtonState(p) == IF p = SETPIN THEN buttonSetupState ELSE buttonUpState

\* a slip: the UP button is read in every poll
ReadsUpAlways(buttonPressed) == TRUE

\* if(buttonPressed == BNONE): the UP button is read
ReadsUp(buttonPressed) == buttonPressed = BNONE

\* loop() up to the return of readClockButtons(SETPIN, UPPIN); without a
\* pressed event the rest of loop() does nothing
LoopPoll ==
    /\ sketch = "clock" /\ pc = "loop"
    /\ dsfound' \in (IF dsfound THEN {TRUE} ELSE {TRUE, FALSE})
    /\ LET testSetup == pinLevel[SETPIN]
           testUp    == pinLevel[UPPIN]
           s == Debounce(testSetup, buttonSetupState, lastButtonSetupState,
                         lastSetupDebounceTime, now)
           first  == IF s.pressed THEN BSETUP ELSE BNONE
           readUp == ReadsUp(first)
           u == Debounce(testUp, buttonUpState, lastButtonUpState,
                         lastUpDebounceTime, now)
           buttonPressed == IF readUp /\ u.state # buttonUpState
                            THEN (IF u.pressed THEN BUP ELSE BNONE)
                            ELSE first
           source == IF buttonPressed = BSETUP THEN {SETPIN}
                     ELSE IF buttonPressed = BUP THEN {UPPIN} ELSE {}
       IN  /\ buttonSetupState' = s.state
           /\ lastButtonSetupState' = s.last
           /\ lastSetupDebounceTime' = s.time
           /\ IF ~readUp
              THEN UNCHANGED <<buttonUpState, lastButtonUpState,
                               lastUpDebounceTime>>
              ELSE /\ buttonUpState' = u.state
                   /\ lastButtonUpState' = u.last
                   /\ lastUpDebounceTime' = u.time
           /\ button' = buttonPressed
           /\ pc' = IF buttonPressed = BNONE THEN "loop" ELSE "handle"
           /\ readRun' =
                  [p \in {SETPIN, UPPIN} |->
                      IF p = SETPIN
                      THEN Reading(readRun[p], testSetup, now,
                                   buttonSetupState, buttonPressed = BSETUP)
                      ELSE IF ~readUp THEN readRun[p]
                      ELSE Reading(readRun[p], testUp, now,
                                   buttonUpState, buttonPressed = BUP)]
           /\ pressEvents' = [p \in {SETPIN, UPPIN} |->
                                 pressEvents[p] + (IF p \in source THEN 1 ELSE 0)]
    /\ limits.events = 0
    /\ UNCHANGED <<sketch, lcdVars, loggerVars,
                   encVars, readDelay, tempString, hcVars, gpioVars,
                   clock, tmpClock, setupMode, timeString, displaySwitch,
                   tick, startConversion, envVars, handleVars>>

\* a button goes down
Press ==
    /\ sketch = "clock"
    /\ \E p \in {SETPIN, UPPIN} :
           /\ pinLevel[p] = LOW
           /\ pinLevel' = [pinLevel EXCEPT ![p] = HIGH]
           /\ pressEvents' = [pressEvents EXCEPT ![p] = 0]
           /\ readRun' = [readRun EXCEPT ![p] = Stale(readRun[p])]
    /\ UNCHANGED <<sketch, lcdVars, loggerVars,
                   pc, encVars, readDelay, tempString, hcVars,
                   gpioVars, clockVars, button, now, nAdvances, nSlowTicks,
                   buttonSetupState, lastButtonSetupState,
                   lastSetupDebounceTime, buttonUpState, lastButtonUpState,
                   lastUpDebounceTime, limits, handleVars>>

\* a button goes up
Release ==
    /\ sketch = "clock"
    /\ \E p \in {SETPIN, UPPIN} :
           /\ pinLevel[p] = HIGH
           /\ pinLevel' = [pinLevel EXCEPT ![p] = LOW]
           /\ readRun' = [readRun EXCEPT ![p] = Stale(readRun[p])]
    /\ UNCHANGED <<sketch, lcdVars, loggerVars,
                   pc, encVars, readDelay, tempString, hcVars,
                   gpioVars, clockVars, button, now, nAdvances, nSlowTicks,
                   buttonSetupState, lastButtonSetupState,
                   lastSetupDebounceTime, buttonUpState, lastButtonUpState,
                   lastUpDebounceTime, pressEvents, limits, handleVars>>

\* the steps of the time, in milliseconds: two of them make up the debounce
\* delay, the third exceeds it
TimeSteps == {25}

\* time passes
Advance ==
    /\ sketch = "clock"
    /\ nAdvances < limits.advances
    /\ \E d \in TimeSteps : now' = now + d
    /\ nAdvances' = nAdvances + 1
    /\ readRun' = [p \in {SETPIN, UPPIN} |-> Stale(readRun[p])]
    /\ UNCHANGED <<sketch, lcdVars, loggerVars,
                   pc, encVars, readDelay, tempString, hcVars,
                   gpioVars, clockVars, button, pinLevel, nSlowTicks,
                   buttonSetupState, lastButtonSetupState,
                   lastSetupDebounceTime, buttonUpState, lastButtonUpState,
                   lastUpDebounceTime, pressEvents, limits, handleVars>>

(***************************************************************************)
(* The clock sketch: setting the time.                                     *)
(***************************************************************************)
\* clockSetup(setupmode): timeString after the call
ClockSetupString(str, tmp, setupmode) ==
    [str EXCEPT
        ![6] = NUL,
        ![5] = IF setupmode = SMUMINUTE THEN ToChar(tmp[4] + Ch0) ELSE ChSpace,
        ![4] = IF setupmode >= SMTMINUTE THEN ToChar(tmp[3] + Ch0) ELSE ChSpace,
        ![3] = ChDot,
        ![2] = IF setupmode >= SMUHOUR THEN ToChar(tmp[2] + Ch0) ELSE ChSpace,
        ![1] = IF setupmode >= SMTHOUR THEN ToChar(tmp[1] + Ch0) ELSE str[1]]

\* a slip: the units of the hours always count up to 9
ClockAdjustTimeUnitsToNine(tmp, setupmode) ==
    LET at == setupmode
        up == (tmp[at] + 1) % 256
    IN  [tmp EXCEPT ![at] = IF up >= (CASE setupmode = SMTHOUR -> 3
                                        [] setupmode = SMTMINUTE -> 6
                                        [] OTHER -> 10)
                            THEN 0 ELSE up]

\* clockAdjust(setupmode): tmpClock after the switch. The default case
\* leaves i and j unassigned; the caller passes SMTHOUR..SMUMINUTE only
ClockAdjustTime(tmp, setupmode) ==
    CASE setupmode = SMTHOUR ->
           [tmp EXCEPT ![1] = IF (tmp[1] + 1) % 256 >= 3 THEN 0
                              ELSE (tmp[1] + 1) % 256]
      [] setupmode = SMUHOUR ->
           LET units == (tmp[2] + 1) % 256
           IN  [tmp EXCEPT ![2] = IF \/ tmp[1] < 2 /\ units >= 10
                                     \/ tmp[1] = 2 /\ units >= 4
                                  THEN 0 ELSE units]
      [] setupmode = SMTMINUTE ->
           [tmp EXCEPT ![3] = IF (tmp[3] + 1) % 256 >= 6 THEN 0
                              ELSE (tmp[3] + 1) % 256]
      [] setupmode = SMUMINUTE ->
           [tmp EXCEPT ![4] = IF (tmp[4] + 1) % 256 >= 10 THEN 0
                              ELSE (tmp[4] + 1) % 256]

\* clockAdjust: the index i of the adjusted digit and j of its character
AdjustIndex(setupmode) ==
    CASE setupmode = SMTHOUR -> [i |-> 0, j |-> 0]
      [] setupmode = SMUHOUR -> [i |-> 1, j |-> 1]
      [] setupmode = SMTMINUTE -> [i |-> 2, j |-> 3]
      [] setupmode = SMUMINUTE -> [i |-> 3, j |-> 4]

\* a slip: the last editing state is skipped
NextSetupModeEarlyWrap(mode) ==
    IF (mode + 1) % 256 >= SMUMINUTE THEN SMIDLE ELSE (mode + 1) % 256

\* setupMode += 1; if(setupMode > SMUMINUTE) setupMode = SMIDLE;
NextSetupMode(mode) ==
    IF (mode + 1) % 256 > SMUMINUTE THEN SMIDLE ELSE (mode + 1) % 256

\* the runs in which the stores of a call of LC4LEDDisplayMemWrite made by
\* loop() are single steps, so that timer 2 may fall between them: the runs
\* with timer 2 that take the pressed events as input. In the other runs
\* the call is one step
StoreByStore == limits.refresh /\ limits.events > 0

\* clockSetup and clockAdjust: LC4LEDDisplayMemWrite(timeString,
\* displayBuf), and back to loop()
LoopMemWrite(str) ==
    IF StoreByStore
    THEN /\ pc' = "write" /\ copyI' = 1
         /\ UNCHANGED <<memVars, button>>
    ELSE /\ SketchMemWrite(str)
         /\ pc' = "loop" /\ button' = BNONE
         /\ copyI' = 0

\* LC4LEDDisplayMemWrite called by loop(): one round of its encoding loop
\* or one store of its error pattern; the last one ends the call. The
\* timer 1 handler leaves timeString alone while the time is set
LoopWrite ==
    /\ sketch = "clock" /\ pc = "write"
    /\ IF copyI < MemWriteRounds(timeString)
       THEN /\ displayBuf' = MemWriteAfter(timeString, displayBuf, copyI)
            /\ copyI' = copyI + 1
            /\ UNCHANGED <<digits, below, written, stray, pc, button>>
       ELSE /\ SketchMemWrite(timeString)
            /\ copyI' = 0
            /\ pc' = "loop" /\ button' = BNONE
    /\ UNCHANGED <<sketch, lcdVars, loggerVars,
                   firstBuf, readDelay, tempString, hcVars, gpioVars,
                   clockVars, envVars, buttonVars, ticksBefore, entryTicks,
                   ticksInCopy, nSetups, nUps>>

\* loop() after readClockButtons returned a pressed event, up to the first
\* of the copy loops where there is one. The timer 1 handler does not tell
\* the editing states apart and leaves tmpClock and, while editing,
\* timeString and the display memory alone: between the copy loops the
\* statements of loop(), clockSetup() and clockAdjust() are taken together
LoopHandle ==
    /\ sketch = "clock" /\ pc = "handle"
    /\ ticksBefore' = nSlowTicks
    /\ entryTicks' = IF button = BSETUP /\ setupMode = SMIDLE
                     THEN nSlowTicks ELSE entryTicks
    /\ IF button = BSETUP
       THEN LET mode == NextSetupMode(setupMode)
            IN  /\ setupMode' = mode
                /\ IF mode = SMIDLE
                   THEN /\ pc' = "commit" /\ copyI' = 0
                        /\ UNCHANGED <<button, timeString, memVars>>
                   ELSE IF mode = SMTHOUR
                   THEN /\ pc' = "snapshot" /\ copyI' = 0
                        /\ UNCHANGED <<button, timeString, memVars>>
                   ELSE /\ timeString' = ClockSetupString(timeString,
                                                          tmpClock, mode)
                        /\ LoopMemWrite(timeString')
                /\ UNCHANGED tmpClock
       ELSE IF button = BUP /\ setupMode # SMIDLE
       THEN LET tmp == ClockAdjustTime(tmpClock, setupMode)
                at  == AdjustIndex(setupMode)
            IN  /\ tmpClock' = tmp
                /\ timeString' = [timeString EXCEPT
                                     ![at.j + 1] = ToChar(tmp[at.i + 1] + Ch0)]
                /\ LoopMemWrite(timeString')
                /\ UNCHANGED setupMode
       ELSE /\ pc' = "loop" /\ button' = BNONE
            /\ UNCHANGED <<setupMode, tmpClock, timeString, memVars, copyI>>
    /\ UNCHANGED <<sketch, lcdVars, loggerVars,
                   firstBuf, readDelay, tempString, hcVars, gpioVars,
                   clock, displaySwitch, tick, dsfound, startConversion,
                   envVars, buttonVars, ticksInCopy, nSetups, nUps>>

\* clockSetup(SMTHOUR): tmpClock[i] = clock[i], one round of the loop; the
\* last round goes on to the end of clockSetup
LoopSnapshot ==
    /\ sketch = "clock" /\ pc = "snapshot"
    /\ tmpClock' = [tmpClock EXCEPT ![copyI + 1] = clock[copyI + 1]]
    /\ IF copyI < 3
       THEN /\ copyI' = copyI + 1
            /\ UNCHANGED <<pc, button, timeString, memVars>>
       ELSE /\ timeString' = ClockSetupString(timeString, tmpClock',
                                              setupMode)
            /\ LoopMemWrite(timeString')
    /\ UNCHANGED <<sketch, lcdVars, loggerVars,
                   firstBuf, readDelay, tempString, hcVars, gpioVars,
                   clock, setupMode, displaySwitch, tick, dsfound,
                   startConversion, envVars, buttonVars, ticksBefore,
                   entryTicks, ticksInCopy, nSetups, nUps>>

\* a slip: the loop stops one digit short
CommitDigitShort(c, tmp, i) ==
    IF i < 3 THEN [c EXCEPT ![i + 1] = tmp[i + 1]] ELSE c

\* clock[i] = tmpClock[i]
CommitDigit(c, tmp, i) == [c EXCEPT ![i + 1] = tmp[i + 1]]

\* loop(), the end of the adjustment: clock[i] = tmpClock[i], one round of
\* the loop; then clock[4] = 0; then if(!displaySwitch) displaySwitch =
\* !displaySwitch
LoopCommit ==
    /\ sketch = "clock" /\ pc \in {"commit", "seconds", "switch"}
    /\ IF pc = "commit"
       THEN /\ clock' = CommitDigit(clock, tmpClock, copyI)
            /\ copyI' = IF copyI < 3 THEN copyI + 1 ELSE 0
            /\ pc' = IF copyI < 3 THEN "commit" ELSE "seconds"
            /\ UNCHANGED <<button, displaySwitch>>
       ELSE IF pc = "seconds"
       THEN /\ clock' = [clock EXCEPT ![5] = 0]
            /\ pc' = "switch"
            /\ UNCHANGED <<button, displaySwitch, copyI>>
       ELSE /\ displaySwitch' = TRUE
            /\ pc' = "loop" /\ button' = BNONE
            /\ UNCHANGED <<clock, copyI>>
    /\ UNCHANGED <<sketch, lcdVars, loggerVars,
                   encVars, readDelay, tempString, hcVars, gpioVars,
                   tmpClock, setupMode, timeString, tick, dsfound,
                   startConversion, envVars, buttonVars, ticksBefore,
                   entryTicks, ticksInCopy, nSetups, nUps>>

\* loop() up to the return of readClockButtons, its result taken as the
\* input: which results a sequence of polls can give is the matter of the
\* runs that read the pins
LoopEvent ==
    /\ sketch = "clock" /\ pc = "loop"
    /\ nSetups + nUps < limits.events
    /\ dsfound' \in (IF dsfound THEN {TRUE} ELSE {TRUE, FALSE})
    /\ \E buttonPressed \in {BSETUP, BUP} :
           /\ button' = buttonPressed
           /\ nSetups' = nSetups + (IF buttonPressed = BSETUP THEN 1 ELSE 0)
           /\ nUps' = nUps + (IF buttonPressed = BUP THEN 1 ELSE 0)
    /\ pc' = "handle"
    /\ UNCHANGED <<sketch, lcdVars, loggerVars,
                   encVars, readDelay, tempString, hcVars, gpioVars,
                   clock, tmpClock, setupMode, timeString, displaySwitch,
                   tick, startConversion, envVars, buttonVars, copyI,
                   ticksBefore, entryTicks, ticksInCopy>>

(***************************************************************************)
(* The clock sketch: the timer interrupts.                                 *)
(***************************************************************************)
\* a byte incremented
Inc(b) == (b + 1) % 256

\* ISR(TIMER1_COMPA_vect), the time update: clock[] after a full minute
NextMinute(c) ==
    LET m1 == Inc(c[4])
        c1 == IF m1 = 10 THEN [c EXCEPT ![4] = 0, ![3] = Inc(c[3])]
              ELSE [c EXCEPT ![4] = m1]
        c2 == IF c1[3] = 6 THEN [c1 EXCEPT ![3] = 0, ![2] = Inc(c1[2])]
              ELSE c1
        c3 == IF \/ c2[1] < 2 /\ c2[2] = 10
                 \/ c2[1] = 2 /\ c2[2] = 4
              THEN [c2 EXCEPT ![2] = 0, ![1] = Inc(c2[1])]
              ELSE c2
    IN  IF c3[1] = 3 THEN [c3 EXCEPT ![1] = 0] ELSE c3

\* clock[] after one more second
TickClock(c) ==
    IF Inc(c[5]) = 60 THEN [NextMinute(c) EXCEPT ![5] = 0]
    ELSE [c EXCEPT ![5] = Inc(c[5])]

\* timeString[j] = clock[i] + '0' for the four digits of the time
TimeOf(str, c) ==
    [str EXCEPT ![1] = ToChar(c[1] + Ch0), ![2] = ToChar(c[2] + Ch0),
                ![4] = ToChar(c[3] + Ch0), ![5] = ToChar(c[4] + Ch0)]

\* "t---": the sensor is missing
NoSensorString == CString(<<Cht, ChMinus, ChMinus, ChMinus>>)

\* a slip: the handler shows the time also while it is being set
NotSettingAlways(mode) == TRUE

\* if(!setupMode): the clock setting is not in progress
NotSetting(mode) == mode = SMIDLE

\* ISR(TIMER1_COMPA_vect): once a second
SlowTick ==
    /\ sketch = "clock"
    /\ nSlowTicks < limits.slowTicks
    /\ nSlowTicks' = nSlowTicks + 1
    /\ clock' = TickClock(clock)
    /\ IF NotSetting(setupMode)
       THEN LET minute == Inc(clock[5]) = 60
                timed  == IF minute THEN TimeOf(timeString, clock')
                          ELSE timeString
            IN  /\ timeString' =
                       [timed EXCEPT ![6] = IF tick THEN ChDot ELSE NUL]
                /\ tick' = ~tick
                /\ IF displaySwitch
                   THEN /\ SketchMemWrite(timeString')
                        /\ UNCHANGED <<startConversion, tempString>>
                   ELSE IF dsfound
                   THEN IF startConversion
                        THEN /\ startConversion' = FALSE
                             /\ UNCHANGED <<memVars, tempString>>
                        ELSE /\ \E temperature \in Temps :
                                    /\ tempString' =
                                           ConvTemp(tempString, temperature)
                                    /\ SketchMemWrite(tempString')
                             /\ startConversion' = TRUE
                   ELSE /\ SketchMemWrite(NoSensorString)
                        /\ UNCHANGED <<startConversion, tempString>>
                /\ readDelay' = CountDown(readDelay, TREADDELAY)
                /\ displaySwitch' = IF readDelay - 1 = 0 THEN ~displaySwitch
                                    ELSE displaySwitch
       ELSE UNCHANGED <<timeString, tick, memVars, startConversion,
                        tempString, readDelay, displaySwitch>>
    /\ ticksInCopy' = ticksInCopy
                        + (IF pc \in {"snapshot", "commit", "seconds"}
                           THEN 1 ELSE 0)
    /\ UNCHANGED <<sketch, lcdVars, loggerVars,
                   pc, firstBuf, hcVars, gpioVars, tmpClock,
                   setupMode, dsfound, buttonVars, button, now, pinLevel,
                   nAdvances, limits, copyI, ticksBefore, entryTicks,
                   nSetups, nUps>>

\* ISR(TIMER2_COMPA_vect): 200 times a second
FastTick ==
    /\ sketch = "clock"
    /\ limits.refresh
    /\ shiftReg' = LC4LEDDisplay(displayBuf, digit, shiftReg)
    /\ hcOut' = shiftReg'
    /\ shown' = Last4(Append(shown, Selected(hcOut')))
    /\ digit' = NextDigit(digit)
    /\ UNCHANGED <<sketch, lcdVars, loggerVars,
                   pc, encVars, readDelay, tempString, gpioVars,
                   clockOnly>>

InitClock ==
    /\ sketch = "clock" /\ pc = "loop"
    /\ digits = <<NUL>>
    /\ BootBuf
    /\ readDelay = TREADDELAY
    /\ BootTempString /\ BootHC595 /\ BootGpio
    /\ BootClock /\ BootButtons
    /\ BootLcd /\ BootLogger
    /\ dsfound \in BOOLEAN
    /\ limits \in Runs

NextClock ==
    \/ FastTick \/ SlowTick
    \/ LoopPoll \/ LoopHandle \/ LoopSnapshot
    \/ Press \/ Release \/ Advance

SpecClock == InitClock /\ [][NextClock]_vars

(***************************************************************************)
(* The sketches with the shift registers, their timer 2 running: the       *)
(* hardware raises the compare interrupt again and again and the handler   *)
(* returns, so it runs again and again.                                    *)
(***************************************************************************)
InitHC595 == InitThermoInt \/ (InitClock /\ limits.refresh)

NextHC595 == ThermoTick \/ NextClock

FairSpec ==
    /\ InitHC595 /\ [][NextHC595]_vars
    /\ WF_vars(FastTick) /\ WF_vars(ThermoTick)

(***************************************************************************)
(* The clock sketch: the time being set while timer 1 counts the seconds.  *)
(* The runs start with the clock running since power-on for some seconds,  *)
(* no button touched and no sensor found so far; readClockButtons is       *)
(* replaced by its results.                                                *)
(***************************************************************************)
\* the pressed events a run takes at most
MaxEvents == 6

\* the seconds since power-on the runs start at: 00:09:59, 19:59:59 and
\* 23:59:59
StartSeconds == {10 * 60 - 1, 20 * 3600 - 1, 24 * 3600 - 1}

\* the runs: from each of the starts two seconds go by, the display held
\* off; from power-on the display runs, timer 1 held off
SetupRuns ==
    {[advances |-> 0, slowTicks |-> 2, refresh |-> FALSE,
      events |-> MaxEvents, start |-> k] : k \in StartSeconds}
    \cup {[advances |-> 0, slowTicks |-> 0, refresh |-> TRUE,
            events |-> MaxEvents, start |-> 0]}

\* clock[] k interrupts of timer 1 after power-on
ClockAfter(k) ==
    LET h == (k \div 3600) % 24
        m == (k \div 60) % 60
    IN  <<h \div 10, h % 10, m \div 10, m % 10, k % 60>>

\* timeString k interrupts of timer 1 after power-on, the time not being set
TimeStringAfter(k) ==
    LET c == ClockAfter(k)
    IN  <<Digit(c[1]), Digit(c[2]), ChDot, Digit(c[3]), Digit(c[4]),
          IF k > 0 /\ k % 2 = 0 THEN ChDot ELSE NUL, NUL>>

\* displaySwitch k interrupts of timer 1 after power-on
DisplaySwitchAfter(k) == (k \div TREADDELAY) % 2 = 0

\* the string the k-th interrupt of timer 1 has encoded, no sensor found
ShownAfter(k) ==
    IF DisplaySwitchAfter(k - 1) THEN TimeStringAfter(k) ELSE NoSensorString

\* the clock sketch k interrupts of timer 1 after power-on, no button
\* touched and no sensor found
Running(k) ==
    /\ clock = ClockAfter(k)
    /\ tmpClock = <<0, 0, 0, 0>>
    /\ setupMode = SMIDLE
    /\ timeString = TimeStringAfter(k)
    /\ tick = (k % 2 = 1)
    /\ readDelay = TREADDELAY - (k % TREADDELAY)
    /\ displaySwitch = DisplaySwitchAfter(k)
    /\ startConversion = TRUE
    /\ BootTempString
    /\ firstBuf = <<0, 0, 0, 0>>
    /\ IF k = 0
       THEN /\ digits = <<NUL>>
            /\ displayBuf = <<0, 0, 0, 0>> /\ below = 255 /\ written = 0
            /\ stray = {}
       ELSE /\ digits = ShownAfter(k)
            /\ \E r \in LC4LEDDisplayMemWrite(digits, <<0, 0, 0, 0>>, 255) :
                   /\ displayBuf = r.buf
                   /\ below = r.below
                   /\ written = r.stored
                   /\ stray = Stray(r)

InitSetup ==
    /\ sketch = "clock" /\ pc = "loop"
    /\ limits \in SetupRuns
    /\ Running(limits.start)
    /\ BootHC595 /\ BootGpio
    /\ BootButtons
    /\ BootLcd /\ BootLogger
    /\ nSlowTicks = 0
    /\ dsfound = FALSE

NextSetup ==
    \/ FastTick \/ SlowTick
    \/ LoopEvent \/ LoopHandle \/ LoopSnapshot \/ LoopCommit
    \/ LoopWrite

SpecSetup == InitSetup /\ [][NextSetup]_vars

\* the runs that start at power-on or later agree, as long as no button is
\* touched and no sensor found, on the state after a number of seconds
RunningAgrees ==
    (/\ sketch = "clock" /\ ~dsfound /\ nSetups + nUps = 0
     /\ \A p \in {SETPIN, UPPIN} : pressEvents[p] = 0 /\ ButtonState(p) = LOW
     /\ setupMode = SMIDLE /\ pc = "loop")
        => Running(limits.start + nSlowTicks)

(***************************************************************************)
(* The clock with the LCD: clock[3] and tmpClock[3] hold the hour, the     *)
(* minute and the second in binary, timeString is "hh:mm:ss". The reading  *)
(* of the light sensor, which sets the backlight only, and the text on the *)
(* LCD are left out; readClockButtons is replaced by its results.          *)
(***************************************************************************)
HOUR == 0
MIN == 1
SEC == 2

\* ':'
ChColon == Ch0 + 10

\* the six characters of timeString written from a clock array
LcdTimeOf(str, c) ==
    [str EXCEPT ![7] = ToChar((c[SEC + 1] \div 10) + Ch0),
                ![8] = ToChar((c[SEC + 1] % 10) + Ch0),
                ![4] = ToChar((c[MIN + 1] \div 10) + Ch0),
                ![5] = ToChar((c[MIN + 1] % 10) + Ch0),
                ![1] = ToChar((c[HOUR + 1] \div 10) + Ch0),
                ![2] = ToChar((c[HOUR + 1] % 10) + Ch0)]

\* a slip: the hours count up to 24
LcdTickClockTo24(c) ==
    LET s == Inc(c[SEC + 1])
        m == Inc(c[MIN + 1])
        h == Inc(c[HOUR + 1])
    IN  IF s # 60 THEN [c EXCEPT ![SEC + 1] = s]
        ELSE IF m # 60 THEN [c EXCEPT ![SEC + 1] = 0, ![MIN + 1] = m]
        ELSE [c EXCEPT ![SEC + 1] = 0, ![MIN + 1] = 0,
                       ![HOUR + 1] = IF h = 25 THEN 0 ELSE h]

\* ISR(TIMER1_COMPA_vect), the time update: clock[] after one more second
LcdTickClock(c) ==
    LET s == Inc(c[SEC + 1])
        m == Inc(c[MIN + 1])
        h == Inc(c[HOUR + 1])
    IN  IF s # 60 THEN [c EXCEPT ![SEC + 1] = s]
        ELSE IF m # 60 THEN [c EXCEPT ![SEC + 1] = 0, ![MIN + 1] = m]
        ELSE [c EXCEPT ![SEC + 1] = 0, ![MIN + 1] = 0,
                       ![HOUR + 1] = IF h = 24 THEN 0 ELSE h]

\* a slip: the units of the hours count up to 9 after 20 as well
LcdAdjustTimeUnitsToNine(tmp, setupmode) ==
    CASE setupmode \in {SMTHOUR, SMUHOUR} ->
           LET h == tmp[HOUR + 1]
           IN  [tmp EXCEPT ![HOUR + 1] =
                               10 * (h \div 10) + (((h % 10) + 1) % 10)]
      [] OTHER ->
           LET m == tmp[MIN + 1]
           IN  [tmp EXCEPT ![MIN + 1] =
                               10 * (m \div 10) + (((m % 10) + 1) % 10)]

\* clockAdjust(setupmode): tmpClock after the switch. In the case SMUHOUR
\* the else belongs to the inner if: with the tens of the hours below 2
\* nothing resets units that have reached 10
LcdAdjustTime(tmp, setupmode) ==
    CASE setupmode = SMTHOUR ->
           LET h == (tmp[HOUR + 1] + 10) % 256
           IN  [tmp EXCEPT ![HOUR + 1] = IF h > 20 THEN 0 ELSE h]
      [] setupmode = SMUHOUR ->
           LET thour == tmp[HOUR + 1] \div 10
               up    == (tmp[HOUR + 1] % 10) + 1
               units == IF thour = 2
                        THEN IF up > 3 THEN 0
                             ELSE IF up > 9 THEN 0 ELSE up
                        ELSE up
           IN  [tmp EXCEPT ![HOUR + 1] = (10 * thour + units) % 256]
      [] setupmode = SMTMINUTE ->
           LET m == (tmp[MIN + 1] + 10) % 256
           IN  [tmp EXCEPT ![MIN + 1] = IF m > 50 THEN 0 ELSE m]
      [] setupmode = SMUMINUTE ->
           LET tmin  == tmp[MIN + 1] \div 10
               up    == (tmp[MIN + 1] % 10) + 1
               units == IF up > 9 THEN 0 ELSE up
           IN  [tmp EXCEPT ![MIN + 1] = (10 * tmin + units) % 256]

\* a slip: the beep on the hour, once on, stays on
ToggleNoteStuck(note) == TRUE

\* if(notestate) notestate = false; else notestate = true;
ToggleNote(note) == IF note THEN FALSE ELSE TRUE

\* ISR(TIMER1_COMPA_vect): once a second; nothing while the time is set
LcdTick ==
    /\ sketch = "lcd"
    /\ nSlowTicks < limits.slowTicks
    /\ nSlowTicks' = nSlowTicks + 1
    /\ IF NotSetting(setupMode)
       THEN /\ clock' = LcdTickClock(clock)
            /\ beepflag' = IF /\ clock'[MIN + 1] = 0 /\ clock'[SEC + 1] = 0
                              /\ notestate
                           THEN TRUE ELSE beepflag
            /\ timeString' = LcdTimeOf(timeString, clock')
            /\ startConversion' = IF dsfound THEN ~startConversion
                                  ELSE startConversion
       ELSE UNCHANGED <<clock, beepflag, timeString, startConversion>>
    /\ ticksInCopy' = ticksInCopy
                        + (IF pc \in {"snapshot", "commit"} THEN 1 ELSE 0)
    /\ UNCHANGED <<sketch, loggerVars, notestate, beepPin,
                   pc, encVars, readDelay, tempString, hcVars, gpioVars,
                   tmpClock, setupMode, displaySwitch, tick, dsfound,
                   buttonVars, button, now, pinLevel, nAdvances, limits,
                   copyI, ticksBefore, entryTicks, nSetups, nUps>>

\* loop() up to the return of readClockButtons, its result taken as the
\* input
LcdEvent ==
    /\ sketch = "lcd" /\ pc = "loop"
    /\ dsfound' \in (IF dsfound THEN {TRUE} ELSE {TRUE, FALSE})
    /\ \E buttonPressed \in {BNONE, BSETUP, BUP} :
           /\ buttonPressed # BNONE => nSetups + nUps < limits.events
           /\ button' = buttonPressed
           /\ nSetups' = nSetups + (IF buttonPressed = BSETUP THEN 1 ELSE 0)
           /\ nUps' = nUps + (IF buttonPressed = BUP THEN 1 ELSE 0)
           /\ pc' = IF buttonPressed = BNONE THEN "tail" ELSE "handle"
    /\ UNCHANGED <<sketch, lcdVars, loggerVars,
                   encVars, readDelay, tempString, hcVars, gpioVars,
                   clock, tmpClock, setupMode, timeString, displaySwitch,
                   tick, startConversion, envVars, buttonVars, copyI,
                   ticksBefore, entryTicks, ticksInCopy>>

\* loop() after readClockButtons returned a pressed event, up to the first
\* of the copies where there is one and up to the delay of beep() where
\* the beep is turned on. While setupMode is not Idle the timer 1 handler
\* does nothing: the statements of clockSetup() and clockAdjust() are taken
\* together
LcdHandle ==
    /\ sketch = "lcd" /\ pc = "handle"
    /\ ticksBefore' = nSlowTicks
    /\ entryTicks' = IF button = BSETUP /\ setupMode = SMIDLE
                     THEN nSlowTicks ELSE entryTicks
    /\ IF button = BSETUP
       THEN LET mode == NextSetupMode(setupMode)
            IN  /\ setupMode' = mode
                /\ pc' = IF mode = SMIDLE THEN "commit"
                         ELSE IF mode = SMTHOUR THEN "snapshot" ELSE "tail"
                /\ copyI' = 0
                /\ UNCHANGED <<tmpClock, timeString, notestate, beepPin>>
       ELSE IF setupMode # SMIDLE
       THEN /\ tmpClock' = LcdAdjustTime(tmpClock, setupMode)
            /\ timeString' = LcdTimeOf(timeString, tmpClock')
            /\ pc' = "tail"
            /\ UNCHANGED <<setupMode, copyI, notestate, beepPin>>
       ELSE /\ notestate' = ToggleNote(notestate)
            /\ beepPin' = IF notestate THEN beepPin ELSE HIGH
            /\ pc' = IF notestate THEN "tail" ELSE "note"
            /\ UNCHANGED <<setupMode, copyI, tmpClock, timeString>>
    /\ UNCHANGED <<sketch, loggerVars, beepflag,
                   encVars, readDelay, tempString, hcVars, gpioVars,
                   clock, displaySwitch, tick, dsfound, startConversion,
                   envVars, buttonVars, button, ticksInCopy, nSetups, nUps>>

\* clockSetup(SMTHOUR): tmpClock[i] = clock[i], one round of the loop
LcdSnapshot ==
    /\ sketch = "lcd" /\ pc = "snapshot"
    /\ tmpClock' = [tmpClock EXCEPT ![copyI + 1] = clock[copyI + 1]]
    /\ copyI' = IF copyI < SEC THEN copyI + 1 ELSE 0
    /\ pc' = IF copyI < SEC THEN "snapshot" ELSE "tail"
    /\ UNCHANGED <<sketch, lcdVars, loggerVars,
                   encVars, readDelay, tempString, hcVars, gpioVars,
                   clock, setupMode, timeString, displaySwitch, tick,
                   dsfound, startConversion, envVars, buttonVars, button,
                   ticksBefore, entryTicks, ticksInCopy, nSetups, nUps>>

\* loop(), the end of the adjustment: clock[HOUR] = tmpClock[HOUR];
\* clock[MIN] = tmpClock[MIN]; clock[SEC] = 0, one statement a step
LcdCommit ==
    /\ sketch = "lcd" /\ pc = "commit"
    /\ clock' = [clock EXCEPT ![copyI + 1] = IF copyI = SEC THEN 0
                                             ELSE tmpClock[copyI + 1]]
    /\ copyI' = IF copyI < SEC THEN copyI + 1 ELSE 0
    /\ pc' = IF copyI < SEC THEN "commit" ELSE "tail"
    /\ UNCHANGED <<sketch, lcdVars, loggerVars,
                   encVars, readDelay, tempString, hcVars, gpioVars,
                   tmpClock, setupMode, timeString, displaySwitch, tick,
                   dsfound, startConversion, envVars, buttonVars, button,
                   ticksBefore, entryTicks, ticksInCopy, nSetups, nUps>>

\* beep(): digitalWrite(BEEP, HIGH); delay(BEEPTIME); digitalWrite(BEEP,
\* LOW), the delay between two steps; and the end of loop(): if(beepflag
\* && notestate) { beep(); beepflag = false; }
LcdBeep ==
    /\ sketch = "lcd" /\ pc \in {"note", "tail", "sharp"}
    /\ IF pc = "note"
       THEN /\ beepPin' = LOW /\ pc' = "tail"
            /\ UNCHANGED <<beepflag, button>>
       ELSE IF pc = "sharp"
       THEN /\ beepPin' = LOW /\ beepflag' = FALSE
            /\ pc' = "loop" /\ button' = BNONE
       ELSE IF beepflag /\ notestate
       THEN /\ beepPin' = HIGH /\ pc' = "sharp"
            /\ UNCHANGED <<beepflag, button>>
       ELSE /\ pc' = "loop" /\ button' = BNONE
            /\ UNCHANGED <<beepflag, beepPin>>
    /\ UNCHANGED <<sketch, loggerVars, notestate,
                   encVars, readDelay, tempString, hcVars, gpioVars,
                   clockVars, envVars, buttonVars, handleVars>>

\* clock[] k interrupts of timer 1 after power-on
LcdClockAfter(k) == <<(k \div 3600) % 24, (k \div 60) % 60, k % 60>>

\* the runs of the clock with the LCD: from each of the starts two seconds
\* go by
LcdRuns ==
    {[advances |-> 0, slowTicks |-> 2, refresh |-> FALSE,
      events |-> MaxEvents, start |-> k] : k \in StartSeconds}

\* the clock with the LCD k interrupts of timer 1 after power-on, no
\* button touched and no sensor found: char timeString[] = "00:00:00"
LcdRunning(k) ==
    /\ clock = LcdClockAfter(k)
    /\ tmpClock = <<0, 0, 0>>
    /\ setupMode = SMIDLE
    /\ timeString = LcdTimeOf(<<Ch0, Ch0, ChColon, Ch0, Ch0, ChColon, Ch0,
                                Ch0, NUL>>, clock)
    /\ dsfound = FALSE /\ startConversion = TRUE
    /\ BootLcd

\* the variables the clock with the LCD does not have
LcdUnused ==
    /\ displaySwitch = DSTEMP /\ tick = FALSE
    /\ readDelay = TREADDELAY
    /\ digits = <<NUL>>
    /\ BootBuf
    /\ BootTempString /\ BootHC595 /\ BootGpio
    /\ BootLogger

InitLcd ==
    /\ sketch = "lcd" /\ pc = "loop"
    /\ limits \in LcdRuns
    /\ LcdRunning(limits.start)
    /\ LcdUnused
    /\ BootButtons
    /\ nSlowTicks = 0

NextLcd ==
    \/ LcdTick \/ LcdEvent \/ LcdHandle \/ LcdSnapshot \/ LcdCommit
    \/ LcdBeep

(***************************************************************************)
(* Both clocks, their time being set.                                      *)
(***************************************************************************)
InitClocks == InitSetup \/ InitLcd

NextClocks == NextSetup \/ NextLcd

SpecClocks == InitClocks /\ [][NextClocks]_vars

(***************************************************************************)
(* Both clocks through the day: one tick of timer 1 from every second of   *)
(* the day, no button touched; and, for the clock with the LCD, one call   *)
(* of clockAdjust from every shadow time in every editing state, next to   *)
(* the runs in which its time is set.                                      *)
(***************************************************************************)
DaySeconds == 24 * 3600

\* one tick from every second of the day
DayRuns ==
    {[advances |-> 0, slowTicks |-> 1, refresh |-> FALSE, events |-> 0,
      start |-> k] : k \in 0..(DaySeconds - 1)}

InitDayBcd ==
    /\ sketch = "clock" /\ pc = "loop"
    /\ limits \in DayRuns
    /\ Running(limits.start)
    /\ BootHC595 /\ BootGpio
    /\ BootButtons
    /\ BootLcd /\ BootLogger
    /\ nSlowTicks = 0
    /\ dsfound = FALSE

InitDayLcd ==
    /\ sketch = "lcd" /\ pc = "loop"
    /\ limits \in DayRuns
    /\ LcdRunning(limits.start)
    /\ LcdUnused
    /\ BootButtons
    /\ nSlowTicks = 0

\* the hours and minutes of the day
DayTimes == {<<h, m, 0>> : h \in 0..23, m \in 0..59}

\* the inputs of clockAdjust: an UP event about to be handled in any
\* editing state with any hour and minute in the shadow clock, the time
\* being set since power-on; of the earlier events only the SETUP events
\* are counted
InitAdjust ==
    /\ sketch = "lcd" /\ pc = "handle"
    /\ limits = Still
    /\ clock = LcdClockAfter(0)
    /\ setupMode \in SMTHOUR..SMUMINUTE
    /\ tmpClock \in DayTimes
    /\ timeString = LcdTimeOf(<<Ch0, Ch0, ChColon, Ch0, Ch0, ChColon, Ch0,
                                Ch0, NUL>>, tmpClock)
    /\ dsfound = FALSE /\ startConversion = TRUE
    /\ BootLcd
    /\ LcdUnused
    /\ buttonSetupState = 0 /\ lastButtonSetupState = LOW
    /\ buttonUpState = 0 /\ lastButtonUpState = LOW
    /\ lastSetupDebounceTime = 0 /\ lastUpDebounceTime = 0
    /\ button = BUP
    /\ now = 0
    /\ pinLevel = [p \in {SETPIN, UPPIN} |-> LOW]
    /\ nAdvances = 0
    /\ readRun = [p \in {SETPIN, UPPIN} |->
                      [level |-> LOW, since |-> 0, from |-> LOW, events |-> 0,
                       fresh |-> FALSE]]
    /\ pressEvents = [p \in {SETPIN, UPPIN} |-> 0]
    /\ copyI = 0 /\ ticksBefore = 0 /\ entryTicks = 0 /\ ticksInCopy = 0
    /\ nSetups = setupMode /\ nUps = 1
    /\ nSlowTicks = 0

InitDay == InitDayBcd \/ InitDayLcd \/ InitLcd \/ InitAdjust

NextDay == SlowTick \/ NextLcd

SpecDay == InitDay /\ [][NextDay]_vars

(***************************************************************************)
(* The datalogger: the buzzer at the end of loop(). Of the rest of loop()  *)
(* the alarm flags it leaves are kept: the temperature alarm of the first  *)
(* sensor and the alarm of the upload; int_sqw, the handler of the 1 Hz    *)
(* square wave of the clock chip, sets and clears the alarm of the clock   *)
(* chip at any point of a pass.                                            *)
(***************************************************************************)
DELAY == 1000
BUZZERINTERVAL == 29000
ALARMSET == 1
ALARMCLEAR == 0
SALWIFI == 3
SALRTC == 0

\* the loop passes of a run at most
MaxPasses == 31

\* Alarm(alarmvar, bitpos, action): bitSet or bitClear
Alarm(alarmvar, bitpos, action) ==
    IF action = ALARMSET
    THEN IF Bit(alarmvar, bitpos) = 1 THEN alarmvar
         ELSE alarmvar + Pow2(bitpos)
    ELSE IF Bit(alarmvar, bitpos) = 1 THEN alarmvar - Pow2(bitpos)
         ELSE alarmvar

\* tAlarms != 0 || sAlarms != 0
AnyAlarm(t, s) == t # 0 \/ s # 0

\* a slip: the pause is one pass longer
BuzzCountLong(count) ==
    IF Inc(count) = BUZZERINTERVAL \div DELAY + 1 THEN 0 ELSE Inc(count)

\* buzzDelayCnt++; if(buzzDelayCnt == BUZZERINTERVAL / DELAY)
\* buzzDelayCnt = 0;
BuzzCount(count) ==
    IF Inc(count) = BUZZERINTERVAL \div DELAY THEN 0 ELSE Inc(count)

\* loop() up to the buzzer: the temperatures are read and uploaded
LoggerSense ==
    /\ sketch = "logger" /\ pc = "sense"
    /\ passes < MaxPasses
    /\ \E action \in {ALARMSET, ALARMCLEAR} :
           tAlarms' = Alarm(tAlarms, 0, action)
    /\ \E action \in {ALARMSET, ALARMCLEAR} :
           sAlarms' \in {sAlarms, Alarm(sAlarms, SALWIFI, action)}
    /\ buzzed' = FALSE /\ seenFirst' = FALSE
    /\ pc' = "buzz"
    /\ UNCHANGED <<boxVars,
                   sketch, lcdVars, buzzDelayCnt, buzzerPin, passes, alarmRun,
                   encVars, readDelay, tempString, hcVars, gpioVars,
                   clockOnly>>

\* if(buzzDelayCnt == 0 && (tAlarms != 0 || sAlarms != 0))
\* digitalWrite(BUZZERPIN, HIGH);
LoggerBuzz ==
    /\ sketch = "logger" /\ pc = "buzz"
    /\ seenFirst' = AnyAlarm(tAlarms, sAlarms)
    /\ IF buzzDelayCnt = 0 /\ AnyAlarm(tAlarms, sAlarms)
       THEN buzzerPin' = HIGH /\ buzzed' = TRUE
       ELSE UNCHANGED <<buzzerPin, buzzed>>
    /\ pc' = "count"
    /\ UNCHANGED <<boxVars,
                   sketch, lcdVars, tAlarms, sAlarms, buzzDelayCnt, passes,
                   alarmRun, encVars, readDelay, tempString, hcVars,
                   gpioVars, clockOnly>>

\* if(tAlarms != 0 || sAlarms != 0) { buzzDelayCnt++; ... } else
\* buzzDelayCnt = 0;
LoggerCount ==
    /\ sketch = "logger" /\ pc = "count"
    /\ buzzDelayCnt' = IF AnyAlarm(tAlarms, sAlarms)
                       THEN BuzzCount(buzzDelayCnt) ELSE 0
    /\ alarmRun' =
           IF seenFirst /\ AnyAlarm(tAlarms, sAlarms)
           THEN IF alarmRun >= 0 THEN alarmRun + 1 ELSE -1
           ELSE IF ~seenFirst /\ ~AnyAlarm(tAlarms, sAlarms) THEN 0
           ELSE IF ~seenFirst /\ alarmRun = 0 THEN 1
           ELSE -1
    /\ pc' = "low"
    /\ UNCHANGED <<boxVars,
                   sketch, lcdVars, tAlarms, sAlarms, buzzerPin, buzzed,
                   passes, seenFirst, encVars, readDelay, tempString,
                   hcVars, gpioVars, clockOnly>>

\* delay(DELAY); digitalWrite(BUZZERPIN, LOW); and the pass is over
LoggerLow ==
    /\ sketch = "logger" /\ pc = "low"
    /\ buzzerPin' = LOW
    /\ passes' = passes + 1
    /\ pc' = "sense"
    /\ UNCHANGED <<boxVars,
                   sketch, lcdVars, tAlarms, sAlarms, buzzDelayCnt, buzzed,
                   seenFirst, alarmRun, encVars, readDelay, tempString,
                   hcVars, gpioVars, clockOnly>>

\* int_sqw(): Alarm(&sAlarms, SALRTC, ALARMCLEAR) when the clock chip has
\* been read, Alarm(&sAlarms, SALRTC, ALARMSET) when not
IntSqw ==
    /\ sketch = "logger"
    /\ \E action \in {ALARMSET, ALARMCLEAR} :
           sAlarms' = Alarm(sAlarms, SALRTC, action)
    /\ UNCHANGED <<boxVars,
                   sketch, pc, lcdVars, tAlarms, buzzDelayCnt, buzzerPin,
                   buzzed, passes, seenFirst, alarmRun, encVars, readDelay,
                   tempString, hcVars, gpioVars, clockOnly>>

\* after setup(), which leaves BUZZERPIN low and the alarm of the clock
\* chip set when the chip does not answer
InitLogger ==
    /\ sketch = "logger" /\ pc = "sense"
    /\ tAlarms = 0
    /\ sAlarms \in {0, Alarm(0, SALRTC, ALARMSET)}
    /\ buzzDelayCnt = 0 /\ buzzerPin = LOW
    /\ buzzed = FALSE /\ passes = 0 /\ seenFirst = FALSE /\ alarmRun = 0
    /\ BootBoxes
    /\ digits = <<NUL>>
    /\ BootBuf
    /\ readDelay = TREADDELAY
    /\ BootTempString /\ BootHC595 /\ BootGpio
    /\ BootClock /\ BootButtons
    /\ BootLcd
    /\ dsfound = FALSE
    /\ limits = Still

NextLogger ==
    LoggerSense \/ LoggerBuzz \/ LoggerCount \/ LoggerLow \/ IntSqw

SpecLogger == InitLogger /\ [][NextLogger]_vars

(***************************************************************************)
(* The datalogger: the heaters, the system alarms and the time stamp of    *)
(* a loop pass. Temperatures are in thousandths of a degree; the sensors   *)
(* deliver multiples of 0.125 degrees at their resolution of 11 bits.      *)
(***************************************************************************)
SENSOR_COUNT == 7
TEMPMARGIN == 2
TEMPLIM == 85
SALHEATER == 2
SALSD == 1

\* thousandths in a degree
Scale == 1000

\* #define HYSTHIGH 0.35 and #define HYSTLOW -0.14
HYSTHIGH == 350
HYSTLOW == 0 - 140

\* const byte tempLimits[6]
tempLimits == <<15, 20, 25, 30, 35, 40>>

\* what the sensor library returns for a sensor that does not answer
Disconnected == (0 - 127) * Scale

\* the loop passes of a run of the heaters at most
MaxBoxPasses == 2

\* the readings of the clock chip in a run at most
MaxReadings == 1

\* a reading of a box, as its distance from the temperature to maintain:
\* past the margin below, on the limit, one, two and three steps of the
\* sensor above it, past the margin above
Offsets == {0 - 2125, 0, 125, 250, 375, 2125}

\* the readings of one pass: the boxes with an even number share one
\* distance or do not answer, those with an odd number another, the
\* sensor outside reads 20 degrees or does not answer
TempReadings ==
    {[i \in 0..(SENSOR_COUNT - 1) |->
          IF i = SENSOR_COUNT - 1 THEN out
          ELSE IF i % 2 = 0
               THEN (IF even = Disconnected THEN Disconnected
                     ELSE tempLimits[i + 1] * Scale + even)
               ELSE (IF odd = Disconnected THEN Disconnected
                     ELSE tempLimits[i + 1] * Scale + odd)] :
        even \in Offsets \cup {Disconnected},
        odd \in Offsets \cup {Disconnected},
        out \in {20 * Scale, Disconnected}}

Abs(x) == IF x < 0 THEN 0 - x ELSE x

\* bitSet(value, bit) and bitClear(value, bit)
BitSet(value, bit) ==
    IF Bit(value, bit) = 1 THEN value ELSE value + Pow2(bit)

BitClear(value, bit) ==
    IF Bit(value, bit) = 1 THEN value - Pow2(bit) ELSE value

\* the test of loop() on the reading of sensor i
Unreliable(i, t) ==
    IF i < SENSOR_COUNT - 1
    THEN \/ t > (tempLimits[i + 1] + TEMPMARGIN) * Scale
         \/ t < (tempLimits[i + 1] - TEMPMARGIN) * Scale
    ELSE Abs(t) > TEMPLIM * Scale

\* loop(): for(i = 0; i < SENSOR_COUNT; i++) Alarm(&tAlarms, i, ...), from
\* round i on
RECURSIVE SenseFrom(_, _, _)
SenseFrom(i, ts, alarms) ==
    IF i >= SENSOR_COUNT THEN alarms
    ELSE SenseFrom(i + 1, ts,
                   Alarm(alarms, i,
                         IF Unreliable(i, ts[i]) THEN ALARMSET
                         ELSE ALARMCLEAR))

\* a slip: the heater stays as it is when every sensor is in alarm
AllOffKeeps(h) == h

\* heater = 0
AllOff(h) == 0

\* a slip: the heater is switched off right above the lower threshold
HeaterOfBoxNoBand(h, i, t) ==
    IF t < tempLimits[i + 1] * Scale - HYSTLOW THEN BitSet(h, i)
    ELSE BitClear(h, i)

\* heaterControl: the body of its loop for box i
HeaterOfBox(h, i, t) ==
    IF t < tempLimits[i + 1] * Scale - HYSTLOW THEN BitSet(h, i)
    ELSE IF t > tempLimits[i + 1] * Scale + HYSTHIGH THEN BitClear(h, i)
    ELSE h

\* heaterControl: its loop from round i on
RECURSIVE HeaterFrom(_, _, _)
HeaterFrom(i, ts, h) ==
    IF i >= SENSOR_COUNT - 1 THEN h
    ELSE HeaterFrom(i + 1, ts, HeaterOfBox(h, i, ts[i]))

\* heaterControl up to the transmission
HeaterControl(ts, alarms, h) ==
    IF BitAnd(alarms, 127) # 127 THEN HeaterFrom(0, ts, h) ELSE AllOff(h)

\* logdata, which loop() sets to 1 in one pass and to 0 in the next
LogData(n) == n % 2

\* a slip: cli() left out
CliForgotten(flag) == flag

\* cli() and sei()
Cli(flag) == FALSE

Sei(flag) == TRUE

\* loop(): the temperatures are read and the temperature alarms updated
HeaterSense ==
    /\ sketch = "heater" /\ pc = "temps"
    /\ passes < MaxBoxPasses
    /\ \E ts \in TempReadings :
           /\ temps' = ts
           /\ tAlarms' = SenseFrom(0, ts, tAlarms)
    /\ pc' = "control"
    /\ UNCHANGED <<sketch, lcdVars, sAlarms, buzzDelayCnt, buzzerPin, buzzed,
                   passes, seenFirst, alarmRun, heater, heaterPort, ints,
                   alarmReg, alarmBit, alarmAction, rtcLast, reading,
                   rtcDate, rtcTime, rowDate, rowTime, encVars, readDelay,
                   tempString, hcVars, gpioVars, clockOnly>>

\* heaterControl(temps) up to the call of Alarm, which depends on the
\* answer of the port, and the start of the log row
HeaterControlStep ==
    /\ sketch = "heater" /\ pc = "control"
    /\ heater' = HeaterControl(temps, tAlarms, heater)
    /\ heaterPort' = heater'
    /\ alarmBit' = SALHEATER
    /\ alarmAction' \in {ALARMSET, ALARMCLEAR}
    /\ rowDate' = -1 /\ rowTime' = -1
    /\ pc' = "cli"
    /\ UNCHANGED <<sketch, lcdVars, tAlarms, sAlarms, buzzDelayCnt,
                   buzzerPin, buzzed, passes, seenFirst, alarmRun, temps,
                   ints, alarmReg, rtcLast, reading, rtcDate, rtcTime,
                   encVars, readDelay, tempString, hcVars, gpioVars,
                   clockOnly>>

\* cli() in front of a call of Alarm(&sAlarms, ...)
AlarmCli ==
    /\ sketch = "heater" /\ pc = "cli"
    /\ ints' = Cli(ints)
    /\ pc' = "load"
    /\ UNCHANGED <<sketch, lcdVars, tAlarms, sAlarms, buzzDelayCnt,
                   buzzerPin, buzzed, passes, seenFirst, alarmRun, temps,
                   heater, heaterPort, alarmReg, alarmBit, alarmAction,
                   rtcLast, reading, rtcDate, rtcTime, rowDate, rowTime,
                   encVars, readDelay, tempString, hcVars, gpioVars,
                   clockOnly>>

\* Alarm(): *alarmvar is read
AlarmLoad ==
    /\ sketch = "heater" /\ pc = "load"
    /\ alarmReg' = sAlarms
    /\ pc' = "store"
    /\ UNCHANGED <<sketch, lcdVars, tAlarms, sAlarms, buzzDelayCnt,
                   buzzerPin, buzzed, passes, seenFirst, alarmRun, temps,
                   heater, heaterPort, ints, alarmBit, alarmAction,
                   rtcLast, reading, rtcDate, rtcTime, rowDate, rowTime,
                   encVars, readDelay, tempString, hcVars, gpioVars,
                   clockOnly>>

\* Alarm(): the bit is set or cleared in the copy and *alarmvar is written
AlarmStore ==
    /\ sketch = "heater" /\ pc = "store"
    /\ sAlarms' = Alarm(alarmReg, alarmBit, alarmAction)
    /\ alarmReg' = -1
    /\ pc' = "sei"
    /\ UNCHANGED <<sketch, lcdVars, tAlarms, buzzDelayCnt,
                   buzzerPin, buzzed, passes, seenFirst, alarmRun, temps,
                   heater, heaterPort, ints, alarmBit, alarmAction,
                   rtcLast, reading, rtcDate, rtcTime, rowDate, rowTime,
                   encVars, readDelay, tempString, hcVars, gpioVars,
                   clockOnly>>

\* sei() behind the call; after the alarm of the heaters loop() goes on
\* with the log row, after the alarm of the card the pass is over
AlarmSei ==
    /\ sketch = "heater" /\ pc = "sei"
    /\ ints' = Sei(ints)
    /\ IF alarmBit = SALHEATER
       THEN pc' = "date" /\ UNCHANGED passes
       ELSE pc' = "temps" /\ passes' = passes + 1
    /\ UNCHANGED <<sketch, lcdVars, tAlarms, sAlarms, buzzDelayCnt,
                   buzzerPin, buzzed, seenFirst, alarmRun, temps,
                   heater, heaterPort, alarmReg, alarmBit, alarmAction,
                   rtcLast, reading, rtcDate, rtcTime, rowDate, rowTime,
                   encVars, readDelay, tempString, hcVars, gpioVars,
                   clockOnly>>

\* cli(); strcat(buffer, rtcDate); sei();
RowDate ==
    /\ sketch = "heater" /\ pc = "date"
    /\ rowDate' = rtcDate
    /\ pc' = "time"
    /\ UNCHANGED <<sketch, lcdVars, tAlarms, sAlarms, buzzDelayCnt,
                   buzzerPin, buzzed, passes, seenFirst, alarmRun, temps,
                   heater, heaterPort, ints, alarmReg, alarmBit,
                   alarmAction, rtcLast, reading, rtcDate, rtcTime, rowTime,
                   encVars, readDelay, tempString, hcVars, gpioVars,
                   clockOnly>>

\* strcat(buffer, ","); cli(); strcat(buffer, rtcTime); sei();
RowTime ==
    /\ sketch = "heater" /\ pc = "time"
    /\ rowTime' = rtcTime
    /\ pc' = "card"
    /\ UNCHANGED <<sketch, lcdVars, tAlarms, sAlarms, buzzDelayCnt,
                   buzzerPin, buzzed, passes, seenFirst, alarmRun, temps,
                   heater, heaterPort, ints, alarmReg, alarmBit,
                   alarmAction, rtcLast, reading, rtcDate, rtcTime, rowDate,
                   encVars, readDelay, tempString, hcVars, gpioVars,
                   clockOnly>>

\* if(logdata > 0): the row is written to the card and the alarm of the
\* card set or cleared; else logdata++ and the pass is over
RowToCard ==
    /\ sketch = "heater" /\ pc = "card"
    /\ IF LogData(passes) > 0
       THEN /\ alarmBit' = SALSD
            /\ alarmAction' \in {ALARMSET, ALARMCLEAR}
            /\ pc' = "cli"
            /\ UNCHANGED passes
       ELSE /\ pc' = "temps"
            /\ passes' = passes + 1
            /\ UNCHANGED <<alarmBit, alarmAction>>
    /\ UNCHANGED <<sketch, lcdVars, tAlarms, sAlarms, buzzDelayCnt,
                   buzzerPin, buzzed, seenFirst, alarmRun, temps,
                   heater, heaterPort, ints, alarmReg, rtcLast, reading,
                   rtcDate, rtcTime, rowDate, rowTime, encVars, readDelay,
                   tempString, hcVars, gpioVars, clockOnly>>

\* int_sqw(), which the processor runs only with interrupts enabled and
\* without a step of the foreground in between: the clock chip is read,
\* rtcTime and rtcDate are printed from the reading and the alarm of the
\* chip is cleared, or the chip is not read and the alarm is set
IntSqwRead ==
    /\ sketch = "heater" /\ ints
    /\ \/ /\ reading < MaxReadings
          /\ reading' = reading + 1
          /\ rtcTime' = reading + 1
          /\ rtcDate' = reading + 1
          /\ sAlarms' = Alarm(sAlarms, SALRTC, ALARMCLEAR)
          /\ rtcLast' = ALARMCLEAR
       \/ /\ sAlarms' = Alarm(sAlarms, SALRTC, ALARMSET)
          /\ rtcLast' = ALARMSET
          /\ UNCHANGED <<reading, rtcTime, rtcDate>>
    /\ UNCHANGED <<sketch, pc, lcdVars, tAlarms, buzzDelayCnt,
                   buzzerPin, buzzed, passes, seenFirst, alarmRun, temps,
                   heater, heaterPort, ints, alarmReg, alarmBit,
                   alarmAction, rowDate, rowTime, encVars, readDelay,
                   tempString, hcVars, gpioVars, clockOnly>>

\* after setup(), which has set the alarm of the clock chip and the alarm
\* of the heaters where the one or the other did not answer
InitHeater ==
    /\ sketch = "heater" /\ pc = "temps"
    /\ tAlarms = 0
    /\ \E rtc \in {ALARMSET, ALARMCLEAR}, port \in {ALARMSET, ALARMCLEAR} :
           /\ sAlarms = Alarm(Alarm(0, SALRTC, rtc), SALHEATER, port)
           /\ rtcLast = rtc
    /\ buzzDelayCnt = 0 /\ buzzerPin = LOW
    /\ buzzed = FALSE /\ passes = 0 /\ seenFirst = FALSE /\ alarmRun = 0
    /\ temps = [i \in 0..(SENSOR_COUNT - 1) |-> 0]
    /\ heater = 0 /\ heaterPort = -1
    /\ ints = TRUE /\ alarmReg = -1 /\ alarmBit = 0 /\ alarmAction = 0
    /\ reading = 0 /\ rtcDate = 0 /\ rtcTime = 0
    /\ rowDate = -1 /\ rowTime = -1
    /\ digits = <<NUL>>
    /\ BootBuf
    /\ readDelay = TREADDELAY
    /\ BootTempString /\ BootHC595 /\ BootGpio
    /\ BootClock /\ BootButtons
    /\ BootLcd
    /\ dsfound = FALSE
    /\ limits = Still

NextHeater ==
    \/ HeaterSense \/ HeaterControlStep
    \/ AlarmCli \/ AlarmLoad \/ AlarmStore \/ AlarmSei
    \/ RowDate \/ RowTime \/ RowToCard
    \/ IntSqwRead

SpecHeater == InitHeater /\ [][NextHeater]_vars

(***************************************************************************)
(* Every sketch.                                                           *)
(***************************************************************************)
Init == InitThermoInt \/ InitThermoGpio \/ InitClock

Next == NextThermo \/ NextClock

Spec == Init /\ [][Next]_vars

(***************************************************************************)
(* The encoder's contract, stated on the input string alone.               *)
(***************************************************************************)
\* the characters of a C string: those in front of its first NUL
TextOf(str) ==
    LET n == CHOOSE n \in 0..(Len(str) - 1) :
                 str[n + 1] = NUL /\ \A m \in 1..n : str[m] # NUL
    IN  SubSeq(str, 1, n)

NonDots(t) == {i \in 1..Len(t) : t[i] # ChDot}

\* 4 to 8 characters, exactly 4 of them not '.', all of those supported,
\* no '.' at the start and no two '.' next to each other
ValidInput(str) ==
    LET t == TextOf(str)
    IN  /\ Len(t) \in 4..8
        /\ Cardinality(NonDots(t)) = 4
        /\ \A i \in NonDots(t) : t[i] \in SupportedChars
        /\ t[1] # ChDot
        /\ \A i \in 1..(Len(t) - 1) : ~(t[i] = ChDot /\ t[i + 1] = ChDot)

\* position in t of its k-th character that is not '.'
NonDotIndex(t, k) ==
    CHOOSE i \in NonDots(t) : Cardinality({j \in NonDots(t) : j <= i}) = k

FollowedByDot(t, i) == i < Len(t) /\ t[i + 1] = ChDot

\* digits has been encoded by the caller
Encoded == sketch = "encoder" /\ pc \in {"once", "twice"}

\* C1: every input string that violates a validation rule leaves exactly the
\* error pattern [0xFE, 0x34, 0x35, 0xFF] in the display buffer, whatever
\* the buffer held before.
C1_InvalidGivesErrorPattern ==
    (Encoded /\ ~ValidInput(digits)) => displayBuf = ErrorPattern

\* The same for the calls that keep within dotsPos (at most 4 dots scanned).
InvalidGivesErrorPatternWithinBounds ==
    (Encoded /\ ~ValidInput(digits) /\ "dotsPos" \notin stray)
        => displayBuf = ErrorPattern

\* the bytes a supported character can leave in the buffer: its glyph, with
\* or without the decimal point
GlyphBytes ==
    {GlyphOf(c) : c \in SupportedChars}
        \cup {BitAnd(GlyphOf(c), DP) : c \in SupportedChars}

\* C2: a valid string (4..8 characters, exactly 4 supported non-dot
\* characters, no leading and no adjacent dots) has all 4 buffer positions
\* written with glyph bytes, and the buffer is never the error pattern.
C2_ValidWritesFourGlyphs ==
    (Encoded /\ ValidInput(digits)) =>
        /\ written = 4
        /\ \A k \in 1..4 : displayBuf[k] \in GlyphBytes
        /\ displayBuf # ErrorPattern

C2_Witness ==
    /\ Encoded /\ ValidInput(digits)
    /\ Len(TextOf(digits)) = 8
    /\ pc = "once"

\* C3: on a valid string, output byte k is the table bitmask of the k-th
\* non-dot character, with bit 0 (decimal point, active low) cleared if and
\* only if that character is immediately followed by '.'.
C3_ByteIsGlyphWithDot ==
    (Encoded /\ ValidInput(digits)) =>
        \A k \in 1..4 :
            LET t == TextOf(digits)
                i == NonDotIndex(t, k)
            IN  /\ \A b \in 1..7 :
                       Bit(displayBuf[k], b) = Bit(GlyphOf(t[i]), b)
                /\ (Bit(displayBuf[k], 0) = 0) <=> FollowedByDot(t, i)

C3_Witness ==
    /\ Encoded
    /\ digits = CString(Template(ChY, 2, {2, 4}))
    /\ displayBuf = <<ONE, YCHAR - 1, THREE, FOUR - 1>>

Str_12dot == CString(<<ChSpace, Digit(1), Digit(2), ChDot>>)

Str_12dotPadded == CString(<<ChSpace, Digit(1), Digit(2), ChDot, ChSpace>>)

\* C4 as stated: encoding " 12." is accepted and yields the blank glyph, the
\* '1' glyph and the '2' glyph with the decimal point lit.
C4_ExampleAccepted ==
    (Encoded /\ digits = Str_12dot) =>
        /\ displayBuf # ErrorPattern
        /\ displayBuf[1] = BLANK
        /\ displayBuf[2] = ONE
        /\ displayBuf[3] = BitAnd(TWO, DP)

\* C4 amended: " 12." has only 3 non-dot characters and is rejected with the
\* error pattern; padded to 4 non-dot characters, " 12. ", it is accepted
\* and yields blank, '1', '2' with the decimal point lit (bit 0 cleared),
\* blank.
C4_ExamplePadded ==
    /\ (Encoded /\ digits = Str_12dot) => displayBuf = ErrorPattern
    /\ (Encoded /\ digits = Str_12dotPadded) =>
           displayBuf = <<BLANK, ONE, BitAnd(TWO, DP), BLANK>>

C4_Witness ==
    Encoded /\ digits = Str_12dot /\ displayBuf = ErrorPattern

\* C5: the final buffer is a function of the input string alone: it is what
\* encoding the string into a fresh buffer gives, whatever was encoded
\* before, and encoding the string a second time does not change it.
C5_PureFunctionOfInput ==
    /\ Encoded => \A r \in LC4LEDDisplayMemWrite(digits, <<0, 0, 0, 0>>, 0) :
                      r.dotsOverflow \/ displayBuf = r.buf
    /\ pc = "twice" => displayBuf = firstBuf

\* The same for the calls that keep within dotsPos.
PureFunctionWithinBounds ==
    "dotsPos" \notin stray => C5_PureFunctionOfInput

\* C6: no two distinct supported characters share a bitmask, the error
\* glyph '?' (0x35) is the bitmask of none, and no valid input leaves the
\* error pattern in the buffer.
TableInjective ==
    /\ \A c1, c2 \in SupportedChars :
           c1 # c2 => GlyphOf(c1) # GlyphOf(c2)
    /\ \A c \in SupportedChars : GlyphOf(c) \in 0..255 \ {QUESTION}

C6_GlyphTableInjective ==
    /\ TableInjective
    /\ (Encoded /\ ValidInput(digits) /\ pc = "twice")
           => displayBuf # ErrorPattern

C6_Witness ==
    /\ Encoded /\ pc = "twice"
    /\ digits = CString(Template(Chn, 1, {}))
    /\ displayBuf = <<NCHAR, TWO, THREE, FOUR>>

\* a '.' on an odd position of the string, positions counted from 1
DotOnOddPosition(t) == \E i \in 1..Len(t) : i % 2 = 1 /\ t[i] = ChDot

\* C7: decimal points are accepted on even positions only: a string with a
\* '.' on an odd position leaves the error pattern (stated for the calls
\* that keep within their arrays).
C7_DotsOnEvenPositionsOnly ==
    (Encoded /\ stray = {} /\ DotOnOddPosition(TextOf(digits)))
        => displayBuf = ErrorPattern

(***************************************************************************)
(* The display drivers.                                                    *)
(***************************************************************************)
\* the sketches that drive the display through the shift registers
OnHC595 == sketch \in {"clock", "thermoInt"}

\* the byte on the pins segmentPin[0..7]: segmentPin[7] carries bit 0
SegmentsOnPins ==
    LET RECURSIVE Sum(_)
        Sum(k) == IF k > 7 THEN 0
                  ELSE segmentPinLevel[8 - k] * Pow2(k) + Sum(k + 1)
    IN  Sum(0)

\* the positions whose digit pin is low
PinsLow == {d \in 0..3 : digitPinLevel[d + 1] = LOW}

\* what holds of the lines in every state: never two enables together; a
\* digit pin that is low has its byte on the segment pins
OneEnableLine ==
    /\ (OnHC595 /\ hcOut # -1) => Cardinality(Selected(hcOut)) = 1
    /\ sketch = "thermoGpio" =>
           /\ Cardinality(PinsLow) <= 1
           /\ \A d \in PinsLow : /\ SegmentsOnPins = displayBuf[d + 1]
                                 /\ d = digitLocal
           /\ pc = "lit" => PinsLow = {digitLocal}

\* what holds of every step: a refresh of position `digit' puts the enable
\* nibble of that position, a different one for each position, and the byte
\* displayBuf[digit] on the outputs, and only a refresh changes the outputs;
\* the segment pins are written only while every digit pin is high
RefreshStep ==
    /\ (OnHC595 /\ shown' # shown) =>
           /\ EnableLines(hcOut') = 15 - Pow2(3 - digit)
           /\ Selected(hcOut') = {digit}
           /\ hcOut' \div 4096 = 0
           /\ SegmentLines(hcOut') = displayBuf'[digit + 1]
    /\ (OnHC595 /\ hcOut' # hcOut) => shown' # shown
    /\ (sketch = "thermoGpio" /\ segmentPinLevel' # segmentPinLevel) =>
           (PinsLow = {} /\ digitPinLevel' = digitPinLevel)
    /\ (sketch = "thermoGpio" /\ digitPinLevel' # digitPinLevel
            /\ digitPinLevel'[digitLocal + 1] = LOW) =>
           (segment < 0 /\ currentChar = 0 /\ PinsLow = {})

\* C8: a refresh of position d asserts exactly the enable line of d and
\* presents displayBuf[d] on the segment outputs; two enable lines are never
\* asserted together; the enable nibble of the shift-register driver has
\* exactly one 0 bit; the GPIO driver drives a digit pin low only after its
\* 8 segment pins are set and high again before the next segments are
\* written
C8_DisplayDriver == []OneEnableLine /\ [][RefreshStep]_vars

\* the GPIO driver lights position 2 with the byte of '8' and the decimal
\* point off, or the shift registers enable position 3 with the degree sign
C8_Witness ==
    \/ /\ sketch = "thermoGpio" /\ pc = "lit" /\ digitLocal = 2
       /\ displayBuf[3] = EIGHT /\ SegmentsOnPins = EIGHT
    \/ /\ sketch = "clock" /\ hcOut = 14 * 256 + DEGREE
       /\ displayBuf[4] = DEGREE

(***************************************************************************)
(* The order of the refreshes.                                             *)
(***************************************************************************)
\* the positions of the last refreshes are consecutive, from position 0 on
RoundRobin ==
    /\ Len(shown) < 4 => \A i \in 1..Len(shown) : shown[i] = {i - 1}
    /\ \E first \in 0..3 :
           \A i \in 1..Len(shown) : shown[i] = {(first + i - 1) % 4}
    /\ Len(shown) = 4 =>
           \A d \in 0..3 : Cardinality({i \in 1..4 : shown[i] = {d}}) = 1

\* a refresh shows the position `digit' and moves on to the next position,
\* and nothing else changes `digit'
RefreshAdvances ==
    /\ shown' # shown =>
           /\ shown'[Len(shown')] = {digit}
           /\ digit' = (digit + 1) % 4
    /\ digit' # digit => shown' # shown

\* C9: the digit index stays within 0..3; the refreshes go round-robin over
\* the positions 0,1,2,3,0,..; any 4 consecutive refreshes show every
\* position exactly once; every position is refreshed again and again,
\* whatever the buttons and timer 1 do
C9_RoundRobinForever ==
    /\ [](digit \in 0..3 /\ RoundRobin)
    /\ [][RefreshAdvances]_vars
    /\ \A d \in 0..3 : []<>(hcOut # -1 /\ Selected(hcOut) = {d})

\* the clock has refreshed position 3 and is back at position 0, with a
\* button held down and the setup under way
C9_Witness ==
    /\ sketch = "clock" /\ shown = <<{0}, {1}, {2}, {3}>> /\ digit = 0
    /\ setupMode = SMTHOUR /\ pinLevel[SETPIN] = HIGH

(***************************************************************************)
(* The buttons.                                                            *)
(***************************************************************************)
\* a poll reports a pressed event only as the debounced state of the button
\* goes from LOW to HIGH, and the debounced state goes back to LOW only on
\* a reading LOW at the end of more than debounceDelay of readings LOW
DebouncedStep ==
    /\ (pc = "loop" /\ button' = BSETUP) =>
           (buttonSetupState = LOW /\ buttonSetupState' = HIGH)
    /\ (pc = "loop" /\ button' = BUP) =>
           (buttonUpState = LOW /\ buttonUpState' = HIGH)
    /\ (buttonSetupState = HIGH /\ buttonSetupState' # HIGH) =>
           /\ buttonSetupState' = LOW /\ pinLevel[SETPIN] = LOW
           /\ readRun'[SETPIN].level = LOW
           /\ now - readRun'[SETPIN].since > debounceDelay
    /\ (buttonUpState = HIGH /\ buttonUpState' # HIGH) =>
           /\ buttonUpState' = LOW /\ pinLevel[UPPIN] = LOW
           /\ readRun'[UPPIN].level = LOW
           /\ now - readRun'[UPPIN].since > debounceDelay
    /\ \A p \in {SETPIN, UPPIN} :
           pressEvents'[p] > pressEvents[p] => pinLevel[p] = HIGH

\* C10: readClockButtons reports at most one pressed event per physical
\* press of a button, however long the button is held; between two pressed
\* events of a button its debounced state has returned to LOW, on readings
\* LOW for longer than the debounce delay
C10_OneEventPerPress ==
    /\ [](sketch = "clock" =>
              \A p \in {SETPIN, UPPIN} : pressEvents[p] <= 1)
    /\ [][sketch = "clock" => DebouncedStep]_vars

\* the SETUP button has been pressed, released and pressed again: the
\* second pressed event has moved the setup on to the units of the hours,
\* and the button is still down
C10_Witness ==
    /\ sketch = "clock" /\ setupMode = SMUHOUR
    /\ pressEvents[SETPIN] = 1 /\ pinLevel[SETPIN] = HIGH
    /\ buttonSetupState = HIGH /\ pc = "loop"

\* the result of a poll that reports a pressed event of a button
PressedOf(p) == IF p = SETPIN THEN BSETUP ELSE BUP

\* a pressed event lies in a run of readings HIGH that has lasted longer
\* than the debounce delay
EventInLongRun ==
    \A p \in {SETPIN, UPPIN} :
        readRun[p].events > 0 =>
            /\ readRun[p].level = HIGH
            /\ now - readRun[p].since > debounceDelay

\* a poll that reports a pressed event of a button has read the button, and
\* the event is one of the present run of readings
EventIsRead ==
    \A p \in {SETPIN, UPPIN} :
        (pc = "loop" /\ button' = PressedOf(p)) =>
            /\ readRun'[p].fresh /\ readRun'[p].events > 0
            /\ readRun'[p].since = readRun[p].since

\* C11: a pressed event of a button is reported only by a poll whose reading
\* HIGH ends a run of equal readings that has lasted longer than the
\* debounce delay of 50 ms; readings that change faster give no event
C11_BounceFiltered ==
    /\ [](sketch = "clock" => EventInLongRun)
    /\ [][sketch = "clock" => EventIsRead]_vars

\* the reading of the SETUP button has gone HIGH and, 100 ms or more after
\* the start, LOW again, without the debounced state following: no event
\* has been reported and the time is not being set
C11_Witness ==
    /\ sketch = "clock" /\ pc = "loop"
    /\ readRun[SETPIN].level = LOW /\ readRun[SETPIN].since >= 2 * debounceDelay
    /\ readRun[SETPIN].from = LOW /\ readRun[SETPIN].fresh
    /\ lastSetupDebounceTime = readRun[SETPIN].since
    /\ buttonSetupState = LOW /\ setupMode = SMIDLE

\* C12 as stated: a reading that went from LOW to HIGH on a debounced state
\* LOW and has stayed HIGH for at least the debounce delay has given exactly
\* one pressed event by the time a poll reads it
C12_AtLeastTheDelay ==
    sketch = "clock" =>
        \A p \in {SETPIN, UPPIN} :
            (/\ readRun[p].fresh /\ readRun[p].level = HIGH
             /\ readRun[p].from = LOW
             /\ now - readRun[p].since >= debounceDelay)
                => readRun[p].events = 1

\* C12: a reading that went from LOW to HIGH on a debounced state LOW and
\* has stayed HIGH for longer than the debounce delay, counted from the
\* first poll that read HIGH, has given exactly one pressed event by the
\* time a poll reads it, and the debounced state is HIGH; no run of equal
\* readings gives more than one event
C12_LongerThanTheDelay ==
    sketch = "clock" =>
        \A p \in {SETPIN, UPPIN} :
            /\ readRun[p].events <= 1
            /\ (/\ readRun[p].fresh /\ readRun[p].level = HIGH
                /\ readRun[p].from = LOW
                /\ now - readRun[p].since > debounceDelay)
                   => (readRun[p].events = 1 /\ ButtonState(p) = HIGH)

\* the UP button has been read HIGH for 75 ms on a debounced state LOW, and
\* the poll at the end of them has reported the one pressed event
C12_Witness ==
    /\ sketch = "clock" /\ pc = "handle" /\ button = BUP
    /\ readRun[UPPIN].fresh /\ readRun[UPPIN].level = HIGH
    /\ readRun[UPPIN].from = LOW
    /\ now - readRun[UPPIN].since = debounceDelay + 25
    /\ readRun[UPPIN].events = 1

\* a poll in which the SETUP button registers a press leaves the UP button
\* alone, its pin unread
SetupBeforeUp ==
    (pc = "loop" /\ button' = BSETUP) =>
        /\ UNCHANGED <<buttonUpState, lastButtonUpState, lastUpDebounceTime>>
        /\ readRun'[UPPIN] = readRun[UPPIN]

\* the UP button is read only by a poll in which the SETUP button registers
\* no press
UpOnlyAfterSetup ==
    (\/ <<buttonUpState, lastButtonUpState, lastUpDebounceTime>>'
            # <<buttonUpState, lastButtonUpState, lastUpDebounceTime>>
     \/ readRun'[UPPIN].fresh /\ ~readRun[UPPIN].fresh)
        => (pc = "loop" /\ button' \in {BNONE, BUP})

\* C13: the result of a poll is one of BNONE, BSETUP and BUP; a poll in
\* which the SETUP button registers a press does not read the UP pin and
\* changes none of the UP button's last reading, debounced state and
\* timestamp; the UP button is evaluated only in the other polls
C13_SetupHasPriority ==
    /\ [](sketch = "clock" => button \in {BNONE, BSETUP, BUP})
    /\ [][sketch = "clock" => (SetupBeforeUp /\ UpOnlyAfterSetup)]_vars

\* a poll has reported a pressed event of the SETUP button while the UP
\* button is down, its last reading still LOW: the poll has read the SETUP
\* pin and not the UP pin
C13_Witness ==
    /\ sketch = "clock" /\ pc = "handle" /\ button = BSETUP
    /\ pinLevel[UPPIN] = HIGH /\ lastButtonUpState = LOW
    /\ readRun[SETPIN].fresh /\ ~readRun[UPPIN].fresh

(***************************************************************************)
(* Setting the time.                                                       *)
(***************************************************************************)
\* loop() is past readClockButtons and handles the pressed event in this
\* step, up to the copy loops
Handles(b) == pc = "handle" /\ pc' # "handle" /\ button = b

\* the adjustment states in their order, Idle after the last
SetupCycle(mode) == (mode + 1) % (SMUMINUTE + 1)

\* only the handling of a SETUP pressed event changes setupMode
OnlySetupMoves ==
    /\ Handles(BSETUP) => setupMode' = SetupCycle(setupMode)
    /\ setupMode' # setupMode => Handles(BSETUP)

\* C14: setupMode is one of Idle, tens of hours, units of hours, tens of
\* minutes and units of minutes; the handling of a SETUP pressed event
\* moves it one step along Idle, 1, 2, 3, 4, Idle, and no other step, of an
\* UP pressed event, of timer 1 or of timer 2, changes it
C14_SetupCycle ==
    /\ [](setupMode \in SMIDLE..SMUMINUTE)
    /\ [][OnlySetupMoves]_vars

\* the fifth SETUP pressed event has been handled, with an UP pressed event
\* and a second gone by before: the time is no longer being set
C14_Witness ==
    /\ sketch = "clock" /\ nSetups = SMUMINUTE + 1 /\ nUps > 0
    /\ nSlowTicks > 0 /\ pc = "loop" /\ setupMode = SMIDLE

\* the hour and minute digits of a clock[]
HourMinute(c) == <<c[1], c[2], c[3], c[4]>>

\* the instants of the handling of the present pressed event, as numbers of
\* interrupts of timer 1 since the start of the run
Instants == ticksBefore..nSlowTicks

\* the end of clockSetup(SMTHOUR), called on the first SETUP pressed event:
\* the shadow clock is the live clock of one instant of the handling
SnapshotOfOneInstant ==
    (pc = "snapshot" /\ pc' = "loop" /\ nSetups = 1) =>
        \E t \in Instants :
            tmpClock' = HourMinute(ClockAfter(limits.start + t))

\* the SETUP pressed events that move on to the states 2..4 leave the shadow
\* clock alone
NoSecondSnapshot ==
    (Handles(BSETUP) /\ setupMode # SMIDLE) => tmpClock' = tmpClock

\* C15: when the SETUP pressed event that leaves Idle has been handled, the
\* shadow clock tmpClock holds the hours and minutes the live clock had at
\* one instant of the handling, whether or not timer 1 interrupts the copy;
\* the later SETUP pressed events do not copy again
C15_SnapshotOnEntry ==
    [][sketch = "clock" => (SnapshotOfOneInstant /\ NoSecondSnapshot)]_vars

\* the handling of the SETUP pressed event in the state of the units of the
\* minutes ends the adjustment, and nothing else does
CommitBegins ==
    /\ (Handles(BSETUP) /\ setupMode = SMUMINUTE) =>
           (pc' = "commit" /\ setupMode' = SMIDLE)
    /\ (pc # "commit" /\ pc' = "commit") =>
           (Handles(BSETUP) /\ setupMode = SMUMINUTE)

\* the end of that handling, no interrupt of timer 1 since it began
CommitEnds ==
    (pc = "switch" /\ pc' = "loop" /\ nSlowTicks = ticksBefore) =>
        /\ setupMode' = SMIDLE
        /\ HourMinute(clock') = tmpClock'
        /\ clock'[5] = 0

\* loop() stores into clock[] only there
OnlyCommitWritesClock ==
    (clock' # clock /\ nSlowTicks' = nSlowTicks) =>
        /\ pc \in {"commit", "seconds"}
        /\ pc' \in {"commit", "seconds", "switch"}

\* C16: the handling of a SETUP pressed event in the state of the units of
\* the minutes, with no interrupt of timer 1 during the handling, ends with
\* setupMode Idle, the hours and minutes of the live clock equal to the
\* shadow clock and the seconds 0; loop() writes the live clock in no other
\* handling
C16_Commit ==
    [][sketch = "clock" =>
           (CommitBegins /\ CommitEnds /\ OnlyCommitWritesClock)]_vars

\* the adjustment has ended with no interrupt of timer 1 during the
\* handling of the last SETUP pressed event: the live clock holds the
\* shadow clock, which an UP pressed event has taken away from the time of
\* the day, and the seconds are 0
C16_Witness ==
    /\ sketch = "clock" /\ pc = "loop" /\ setupMode = SMIDLE
    /\ nSetups = SMUMINUTE + 1 /\ nUps = 1 /\ button = BNONE
    /\ nSlowTicks = ticksBefore /\ nSlowTicks > 0
    /\ HourMinute(clock) = tmpClock /\ clock[5] = 0
    /\ clock # ClockAfter(limits.start + nSlowTicks)

\* clock[] after n more interrupts of timer 1
RECURSIVE TicksOn(_, _)
TicksOn(c, n) == IF n = 0 THEN c ELSE TicksOn(TickClock(c), n - 1)

\* C17: when the copy of the shadow clock into the live clock at the end of
\* the adjustment has finished, whatever interrupts of timer 1 fell into
\* it, the live clock is the shadow clock with the seconds 0, or that clock
\* after whole seconds
C17_AtomicCommit ==
    [][(sketch = "clock" /\ pc = "switch" /\ pc' = "loop") =>
           \E n \in 0..(nSlowTicks - ticksBefore) :
               clock' = TicksOn(tmpClock \o <<0>>, n)]_vars

\* the digit of the shadow clock a state adjusts and the value it counts
\* up to
DigitUnderEdit(mode, tmp) ==
    [at  |-> mode,
     max |-> CASE mode = SMTHOUR -> 2
               [] mode = SMUHOUR -> IF tmp[1] = 2 THEN 3 ELSE 9
               [] mode = SMTMINUTE -> 5
               [] mode = SMUMINUTE -> 9]

\* the handling of an UP pressed event while the time is being set
IncrementsOneDigit ==
    (Handles(BUP) /\ setupMode # SMIDLE) =>
        LET d == DigitUnderEdit(setupMode, tmpClock)
        IN  tmpClock' = [tmpClock EXCEPT
                            ![d.at] = IF tmpClock[d.at] + 1 > d.max THEN 0
                                      ELSE tmpClock[d.at] + 1]

\* in the sketch with the BCD clock an UP pressed event advances the digit under
\* edit of the shadow clock by one, to 0 past its maximum (tens of hours 2;
\* units of hours 9, or 3 when the tens are 2; tens of minutes 5; units of
\* minutes 9), and leaves the other three digits unchanged
C18_IncrementField ==
    [][sketch = "clock" => IncrementsOneDigit]_vars

\* two SETUP pressed events and one UP pressed event from 23:59: the units
\* of the hours have gone from 3 to 0, the other digits are as they were
C18_Witness ==
    /\ sketch = "clock" /\ pc = "loop" /\ setupMode = SMUHOUR
    /\ nSetups = 2 /\ nUps = 1 /\ tmpClock = <<2, 0, 5, 9>>

\* the field of the binary shadow clock an adjustment state works on
FieldUnderEdit(mode) == IF mode \in {SMTHOUR, SMUHOUR} THEN HOUR ELSE MIN

\* the adjustment states of the tens
EditsTens(mode) == mode \in {SMTHOUR, SMTMINUTE}

\* the field v with its decimal digit under edit advanced by one, 0 after
\* the digit's maximum, and its other decimal digit kept
DigitAdvanced(mode, v) ==
    LET tens  == v \div 10
        units == v % 10
        max   == CASE mode = SMTHOUR -> 2
                   [] mode = SMUHOUR -> IF tens = 2 THEN 3 ELSE 9
                   [] mode = SMTMINUTE -> 5
                   [] mode = SMUMINUTE -> 9
        d     == IF EditsTens(mode) THEN tens ELSE units
        nd    == IF d + 1 > max THEN 0 ELSE d + 1
    IN  IF EditsTens(mode) THEN 10 * nd + units ELSE 10 * tens + nd

\* the handling of an UP pressed event while the time is being set, in the
\* sketch with the binary clock
IncrementsOneBinaryDigit ==
    (Handles(BUP) /\ setupMode # SMIDLE) =>
        LET f == FieldUnderEdit(setupMode) + 1
        IN  tmpClock' = [tmpClock EXCEPT
                            ![f] = DigitAdvanced(setupMode, tmpClock[f])]

\* C18: in every editing state an UP pressed event advances the digit under
\* edit of the shadow clock by one, to 0 past its maximum, and leaves the
\* other digits of the shadow time unchanged, in the sketch with the BCD
\* clock and, for the other decimal digit of the same field, in the sketch
\* with the binary clock
C18_IncrementFieldInBoth ==
    [][/\ sketch = "clock" => IncrementsOneDigit
       /\ sketch = "lcd" => IncrementsOneBinaryDigit]_vars

\* the hour of the shadow clock
ShadowHour(tmp) == 10 * tmp[1] + tmp[2]

\* C19: in the state of the tens of the hours an UP pressed event takes the
\* tens from 2 to 0, and after the handling of every UP pressed event in an
\* editing state the hour of the shadow clock is at most 23
C19_HourWraps ==
    [][(sketch = "clock" /\ Handles(BUP) /\ setupMode # SMIDLE) =>
           /\ (setupMode = SMTHOUR /\ tmpClock[1] = 2) => tmpClock'[1] = 0
           /\ ShadowHour(tmpClock') <= 23]_vars

\* the run that starts at 23:59:59 has the live clock at 23:59 when the
\* adjustment begins, takes no UP pressed event and has no interrupt of
\* timer 1 inside a copy loop
FromMidnightLess1 ==
    /\ sketch = "clock" /\ pc = "loop" /\ nUps = 0 /\ ticksInCopy = 0
    /\ nSetups > 0
    /\ HourMinute(ClockAfter(limits.start + entryTicks)) = <<2, 3, 5, 9>>

GlobalsButNote ==
    <<encVars, readDelay, tempString, hcVars, gpioVars, clockVars,
      buttonSetupState, lastButtonSetupState, lastSetupDebounceTime,
      buttonUpState, lastButtonUpState, lastUpDebounceTime, beepflag>>

\* C21 as stated: the handling of an UP pressed event while the state is
\* Idle leaves the live clock, the shadow clock, the adjustment state, the
\* display string and every other variable of the program as they are
C21_UpInIdleIsNoOp ==
    [][Handles(BUP) /\ setupMode = SMIDLE
           => UNCHANGED <<GlobalsButNote, notestate, beepPin>>]_vars

\* C21: the handling of an UP pressed event while the state is Idle leaves
\* the live clock, the shadow clock, the adjustment state and the display
\* string as they are; in the clock with the shift registers it changes no
\* variable of the program, in the clock with the LCD it toggles notestate,
\* starts a beep when it turns notestate on and changes nothing else
C21_UpInIdle ==
    [][Handles(BUP) /\ setupMode = SMIDLE
           => /\ UNCHANGED GlobalsButNote
              /\ IF sketch = "lcd"
                 THEN /\ notestate' = ~notestate
                      /\ beepPin' = IF notestate' THEN HIGH ELSE beepPin
                 ELSE UNCHANGED <<notestate, beepPin>>]_vars

\* an UP event has been handled in Idle by the clock with the LCD and has
\* turned the beep on the hour off again
C21_Witness ==
    /\ sketch = "lcd" /\ nSetups = 0 /\ nUps = 2 /\ pc = "tail"
    /\ ~notestate /\ setupMode = SMIDLE

\* an UP event handled in an editing state, or a SETUP event handled in one
\* of the first three editing states
EditingPress ==
    \/ Handles(BUP) /\ setupMode # SMIDLE
    \/ Handles(BSETUP) /\ setupMode \in SMTHOUR..SMTMINUTE

\* C22: the handling of an UP event in an editing state and of a SETUP
\* event in the editing states 1..3 writes no element of the live clock and
\* starts no commit; while the state is an editing state, from the entry to
\* the commit, the live clock changes by the tick of timer 1 only (and in
\* the clock with the LCD, whose handler holds the time while it is set,
\* not at all)
C22_EditingKeepsClock ==
    [][/\ EditingPress => clock' = clock /\ pc' # "commit"
       /\ setupMode # SMIDLE /\ clock' # clock
              => /\ sketch = "clock"
                 /\ nSlowTicks' = nSlowTicks + 1
                 /\ clock' = TickClock(clock)]_vars

\* the hour has been edited and a SETUP event has passed on to the minutes
\* while a second went by since the entry
C22_Witness ==
    /\ sketch = "clock" /\ setupMode = SMTMINUTE /\ pc = "loop"
    /\ nUps > 0 /\ nSlowTicks > entryTicks
    /\ clock = TickClock(ClockAfter(limits.start))
    /\ tmpClock[1] # clock[1]

(***************************************************************************)
(* The timer 1 handler and loop() as writers of the display.               *)
(***************************************************************************)
\* a step of the timer 1 handler
TimerOneStep == nSlowTicks' = nSlowTicks + 1

\* a step that writes the display string or the display memory
WritesDisplay == timeString' # timeString \/ memVars' # memVars

\* C23: while the state is not Idle the timer 1 handler writes none of
\* tmpClock, timeString and the display memory; loop() with clockSetup and
\* clockAdjust writes timeString and the display memory only while the
\* state is not Idle, and tmpClock only then; so within an adjustment the
\* handler and loop() never both write them
C23_OneWriterOfDisplay ==
    [][/\ TimerOneStep /\ setupMode # SMIDLE
              => UNCHANGED <<tmpClock, timeString, memVars>>
       /\ ~TimerOneStep /\ (WritesDisplay \/ tmpClock' # tmpClock)
              => setupMode # SMIDLE /\ setupMode' # SMIDLE]_vars

\* a second has gone by in an editing state after an UP event: the display
\* string still shows the digit that loop() wrote from the shadow clock
C23_Witness ==
    /\ sketch = "clock" /\ setupMode = SMTHOUR /\ pc = "loop"
    /\ nUps > 0 /\ nSlowTicks > ticksBefore
    /\ timeString[1] = Digit(tmpClock[1])
    /\ tmpClock[1] # clock[1]

(***************************************************************************)
(* The ranges of the live clock.                                           *)
(***************************************************************************)
\* C24: in the clock with clock[5], after any sequence of ticks and of
\* SETUP and UP events, the live clock has its tens of hours in 0..2, its
\* units of hours in 0..9, its tens of minutes in 0..5, its units of
\* minutes in 0..9 and its seconds in 0..59 (the timer 1 handler is one
\* step: it is never executing in a state)
C24_DigitsInRange ==
    sketch = "clock"
        => /\ clock[1] \in 0..2 /\ clock[2] \in 0..9
           /\ clock[3] \in 0..5 /\ clock[4] \in 0..9
           /\ clock[5] \in 0..59

\* C25: in the clock with clock[3], after any sequence of ticks and of
\* SETUP and UP events, the live clock and the shadow clock have their hour
\* in 0..23 and their minute in 0..59, and the live clock has its seconds
\* in 0..59
C25_BinaryRanges ==
    sketch = "lcd"
        => /\ clock[HOUR + 1] \in 0..23 /\ tmpClock[HOUR + 1] \in 0..23
           /\ clock[MIN + 1] \in 0..59 /\ tmpClock[MIN + 1] \in 0..59
           /\ clock[SEC + 1] \in 0..59

\* an UP event in the units-of-hours state has taken the shadow hour 23 to
\* 20 and a SETUP event has passed on to the minutes
C25_Witness ==
    /\ sketch = "lcd" /\ setupMode = SMTMINUTE /\ pc = "loop"
    /\ clock[HOUR + 1] = 23 /\ tmpClock[HOUR + 1] = 20
    /\ tmpClock[MIN + 1] = 59

(***************************************************************************)
(* One tick of timer 1.                                                    *)
(***************************************************************************)
\* clock[5] as hour, minute and second
ToBinary(c) == <<10 * c[1] + c[2], 10 * c[3] + c[4], c[5]>>

\* clock[3] as four digits and the seconds
ToBcd(c) ==
    <<c[HOUR + 1] \div 10, c[HOUR + 1] % 10, c[MIN + 1] \div 10,
      c[MIN + 1] % 10, c[SEC + 1]>>

\* the seconds since midnight
SecondsOf(c) == (c[HOUR + 1] * 60 + c[MIN + 1]) * 60 + c[SEC + 1]

\* a time of the day in clock[3]
ValidTime(c) ==
    c[HOUR + 1] \in 0..23 /\ c[MIN + 1] \in 0..59 /\ c[SEC + 1] \in 0..59

\* a time of the day in clock[5]
ValidBcd(c) ==
    /\ c[2] \in 0..9 /\ c[3] \in 0..5 /\ c[4] \in 0..9
    /\ ValidTime(ToBinary(c))

\* C26: one run of the timer 1 handler while the state is Idle takes the
\* live clock from any valid time to the time one second later, modulo 24
\* hours, and the handler for clock[5] and the handler for clock[3] agree
\* when the hour is read as 10 * tens + units
C26_OneSecond ==
    [][TimerOneStep /\ setupMode = SMIDLE
          => IF sketch = "clock"
             THEN ValidBcd(clock)
                    => /\ ValidBcd(clock')
                       /\ SecondsOf(ToBinary(clock'))
                            = (SecondsOf(ToBinary(clock)) + 1) % DaySeconds
                       /\ ToBinary(clock') = LcdTickClock(ToBinary(clock))
             ELSE ValidTime(clock)
                    => /\ ValidTime(clock')
                       /\ SecondsOf(clock')
                            = (SecondsOf(clock) + 1) % DaySeconds
                       /\ ToBcd(clock') = TickClock(ToBcd(clock))]_vars

\* the handler for clock[5] has run at 23:59:59
C26_Witness ==
    /\ sketch = "clock" /\ limits.start = DaySeconds - 1 /\ nSlowTicks = 1
    /\ clock = <<0, 0, 0, 0, 0>> /\ setupMode = SMIDLE

(***************************************************************************)
(* The display memory between its writers and timer 2.                     *)
(***************************************************************************)
\* a call of LC4LEDDisplayMemWrite has stored some of its bytes and not yet
\* all of them
PartlyWritten == pc = "write" /\ copyI > 1

\* a step of the timer 2 handler, which reads displayBuf[digit]
TimerTwoStep == sketch = "clock" /\ digit' # digit

\* C27: the timer 2 handler never reads a byte of displayBuf while a write
\* of the four bytes is partly done, whether the writer is the timer 1
\* handler or a call of LC4LEDDisplayMemWrite from clockSetup or clockAdjust
C27_NoTearing == [][TimerTwoStep => ~PartlyWritten]_vars

(***************************************************************************)
(* convTemp over the temperatures.                                         *)
(***************************************************************************)
\* the temperatures, in tenths of a degree, go from -MaxTenths to MaxTenths
MaxTenths == 1100

\* the string convTemp is said to return for the rounded temperature t
SignTensUnitsDegree(t) ==
    LET a == IF t < 0 THEN -t ELSE t
    IN  CString(<<IF t < 0 THEN ChMinus ELSE ChSpace,
                  IF a < 10 THEN ChSpace ELSE Digit((a \div 10) % 10),
                  Digit(a % 10), Chg>>)

\* a string the encoder takes without writing the error pattern
EncodesWell(str) ==
    \A r \in LC4LEDDisplayMemWrite(str, <<0, 0, 0, 0>>, 0) :
        r.buf # ErrorPattern

\* C28: whatever string an earlier call has left, convTemp returns for every
\* temperature, those at or below -100 and at or above 100 among them, the
\* four characters sign, tens digit or space, units digit of the absolute
\* rounded value and 'g', which the encoder takes without the error pattern
C28_ConvTempFormat ==
    \A tenths \in (-MaxTenths)..MaxTenths :
        LET str == ConvTemp(tempString, tenths)
        IN  str = SignTensUnitsDegree(Round(tenths)) /\ EncodesWell(str)

(***************************************************************************)
(* The time and the temperature in turn.                                   *)
(***************************************************************************)
\* C29: in the clock sketch with the shift registers readDelay stays
\* within 1..TREADDELAY, a tick during the adjustment advances neither it
\* nor the source of the display, a tick in Idle counts it down, and the
\* source changes only when a count of TREADDELAY ticks in Idle runs out:
\* every maximal run of Idle ticks with one source is TREADDELAY long, also
\* when an adjustment lies within it
C29_RunsOfFive ==
    /\ [](sketch = "clock" => readDelay \in 1..TREADDELAY)
    /\ [][sketch = "clock"
            => /\ TimerOneStep /\ setupMode # SMIDLE
                    => UNCHANGED <<readDelay, displaySwitch>>
               /\ TimerOneStep /\ setupMode = SMIDLE
                    => readDelay' = CountDown(readDelay, TREADDELAY)
               /\ displaySwitch' # displaySwitch
                    => /\ TimerOneStep /\ setupMode = SMIDLE
                       /\ readDelay = 1 /\ readDelay' = TREADDELAY]_vars

(***************************************************************************)
(* The buzzer of the datalogger.                                           *)
(***************************************************************************)
\* C30: while the tests of the passes go on finding an alarm, the buzzer
\* pin is driven high in the pass in which the alarm appears after a pass
\* without alarm and then in every 29th pass (BUZZERINTERVAL / DELAY), and
\* in no pass between; in a pass without alarm the pin is not driven high
\* and buzzDelayCnt is reset to 0; the pin is low again at the end of every
\* pass
C30_BuzzerEvery29 ==
    sketch = "logger"
        => /\ pc = "low" /\ alarmRun >= 1
                => (buzzed <=> (alarmRun - 1) % (BUZZERINTERVAL \div DELAY) = 0)
           /\ pc = "low" /\ alarmRun = 0 => ~buzzed /\ buzzDelayCnt = 0
           /\ pc = "sense" => buzzerPin = LOW
           /\ buzzerPin = HIGH => buzzed


(***************************************************************************)
(* The heaters of the datalogger.                                          *)
(***************************************************************************)
\* bits 0..6 of tAlarms are all set
AllSevenAlarms(alarms) == \A i \in 0..6 : Bit(alarms, i) = 1

\* the step of loop() that calls heaterControl
CallsHeaterControl == sketch = "heater" /\ pc = "control" /\ pc' = "cli"

\* C31: in every loop pass in which all seven thermometers indicate an
\* alarm heaterControl sets the heater byte to 0 and sends 0 to the port of
\* the heaters: from the call to the reading of the temperatures in the
\* next pass all heaters are off, whatever they were and whatever the
\* temperatures read
C31_FailSafe ==
    [][(CallsHeaterControl /\ AllSevenAlarms(tAlarms))
           => heater' = 0 /\ heaterPort' = 0]_vars
    /\ [](sketch = "heater" /\ pc # "control" /\ AllSevenAlarms(tAlarms)
              => heater = 0 /\ heaterPort = 0)

\* the second pass finds all seven thermometers in alarm, none of them
\* disconnected but the one outside: 0 has been sent
C31_Witness ==
    /\ sketch = "heater" /\ pc = "cli" /\ passes = 1
    /\ AllSevenAlarms(tAlarms)
    /\ temps[0] = 15 * Scale + 2125 /\ temps[1] = 20 * Scale - 2125
    /\ heater = 0 /\ heaterPort = 0

\* the bit of box i after heaterControl, by the thresholds of 0.14 and 0.35
\* degrees above the temperature to maintain
HysteresisBit(i, t, before) ==
    IF t < tempLimits[i + 1] * Scale + 140 THEN 1
    ELSE IF t > tempLimits[i + 1] * Scale + 350 THEN 0
    ELSE before

\* C32: in a pass where not all seven alarms are set, bit i of the heater
\* byte becomes 1 if temp[i] < limit[i] + 0.14, 0 if temp[i] > limit[i] +
\* 0.35 and keeps its value otherwise, for each box i in 0..5; bits 6 and 7
\* of the heater byte are 0 in every reachable state
C32_Hysteresis ==
    [][(CallsHeaterControl /\ ~AllSevenAlarms(tAlarms))
           => \A i \in 0..5 :
                  Bit(heater', i) = HysteresisBit(i, temps[i], Bit(heater, i))
      ]_vars
    /\ [](Bit(heater, 6) = 0 /\ Bit(heater, 7) = 0)

\* the second pass reads 15.25 degrees in box 0, between the thresholds,
\* and 20.375 degrees in box 1, above them: heater 0 has stayed on, heater
\* 1 is off
C32_Witness ==
    /\ sketch = "heater" /\ pc = "cli" /\ passes = 1
    /\ ~AllSevenAlarms(tAlarms)
    /\ temps[0] = 15 * Scale + 250 /\ temps[1] = 20 * Scale + 375
    /\ Bit(heater, 0) = 1 /\ Bit(heater, 1) = 0 /\ heaterPort = heater


(***************************************************************************)
(* The system alarms of the datalogger.                                    *)
(***************************************************************************)
\* C33: every read-modify-write of sAlarms by the foreground runs with
\* interrupts disabled, and after a call of Alarm() by the foreground the
\* bit of the clock chip holds the value int_sqw last gave it and the bit
\* the foreground changed holds the foreground's value, for every
\* interleaving with int_sqw
C33_NoLostUpdate ==
    sketch = "heater"
        => /\ pc \in {"load", "store"} => ~ints
           /\ pc = "sei" => /\ Bit(sAlarms, SALRTC) = rtcLast
                            /\ Bit(sAlarms, alarmBit) = alarmAction

\* the foreground has set the alarm of the card after int_sqw had read the
\* clock chip once and failed to read it afterwards: both bits are set
C33_Witness ==
    /\ sketch = "heater" /\ pc = "sei"
    /\ alarmBit = SALSD /\ alarmAction = ALARMSET
    /\ reading = 1 /\ rtcLast = ALARMSET
    /\ Bit(sAlarms, SALSD) = 1 /\ Bit(sAlarms, SALRTC) = 1


(***************************************************************************)
(* The time stamp of a log row of the datalogger.                          *)
(***************************************************************************)
\* C38: the date and the time that one loop pass appends to a log row come
\* from the same reading of the clock chip
C38_OneReadingPerRow ==
    (sketch = "heater" /\ rowDate # -1 /\ rowTime # -1) => rowDate = rowTime


(***************************************************************************)
(* The memory safety of the encoder.                                       *)
(***************************************************************************)
\* C34: for every NUL-terminated input string, invalid ones included, every
\* read and write of LC4LEDDisplayMemWrite on displayBuf uses an index
\* within 0..3; the case '.' never accesses displayBuf[bufIndex - 1] with
\* bufIndex = 0
C34_DisplayBufInBounds ==
    sketch = "encoder" => "displayBuf" \notin stray

\* C35: for every input string of 4 to 8 characters the dot counter used to
\* index dotsPos never exceeds 3 at a write, also for strings with 5 to 8
\* decimal points
C35_DotsPosInBounds ==
    (sketch = "encoder" /\ StrLen(digits) \in 4..8) => "dotsPos" \notin stray


(***************************************************************************)
(* The clock sketch and the error pattern.                                 *)
(***************************************************************************)
\* C36: after any sequence of ticks of a second, SETUP pressed events and
\* UP pressed events from power-on, every string the clock sketch hands to
\* LC4LEDDisplayMemWrite is valid: displayBuf never holds the error pattern
C36_NeverErrorPattern ==
    sketch = "clock" => displayBuf # ErrorPattern


(***************************************************************************)
(* The displayed time and the live clock.                                  *)
(***************************************************************************)
\* the characters of the clock's four digits, as the timer handler prints
\* them
ClockChars(c) == <<Ch0 + c[1], Ch0 + c[2], Ch0 + c[3], Ch0 + c[4]>>

\* positions 0, 1, 3 and 4 of timeString
TimeChars(str) == <<str[1], str[2], str[4], str[5]>>

\* C37: whenever the adjustment state is Idle and neither the timer handler
\* nor a commit is in progress, the four digit characters of timeString are
\* the characters of the live clock's tens and units of the hours and of
\* the minutes, for every interleaving of the handler with the commit
C37_TimeStringIsClock ==
    (sketch = "clock" /\ setupMode = SMIDLE /\ pc = "loop")
        => TimeChars(timeString) = ClockChars(clock)

====
